---- MODULE Spec2Model ----
(***************************************************************************)
(* TLA+ model of the tabctl native-messaging bridge (src/native-host.js): *)
(* the length-prefixed frame codec on stdin/stdout, the pending-request    *)
(* table with its timers, and the newline-delimited socket protocol.       *)
(*                                                                         *)
(* Text is a sequence of code points, bytes are numbers 0..255.  JSON text *)
(* is abbreviated: an object is "{", then one code point per key followed  *)
(* by one code point per value, then "}".  Only the code points' widths in *)
(* UTF-8 and the well-formedness of a text matter to the bridge.           *)
(***************************************************************************)
EXTENDS Integers, Sequences, FiniteSets, TLC

(***************************************************************************)
(* Bounds of the model.                                                    *)
(***************************************************************************)
MaxConns == 2
MaxCalls == 2
MaxLines == 2
MaxLinesPerChunk == 2
MaxFramesPerChunk == 2
TickMs == 5000
MaxWireFrames == 2
MaxIdLen == 3
MaxPartials == 2
MaxBridges == 2
MaxBuf == 8
MaxFaults == 1
MaxDays == 2
MaxTabId == 120
MaxIds == 3
MaxTabs == 3
MaxEvents == 3
DateNow == 180000000

(***************************************************************************)
(* Program constants.                                                      *)
(***************************************************************************)
REQUEST_TIMEOUT == 10000

Undefined == "undefined"

(***************************************************************************)
(* Sequence helpers.                                                       *)
(***************************************************************************)
Min(a, b) == IF a < b THEN a ELSE b

Max(a, b) == IF a > b THEN a ELSE b

Drop(s, n) == SubSeq(s, n + 1, Len(s))

Take(s, n) == SubSeq(s, 1, Min(n, Len(s)))

RECURSIVE Flatten(_)
Flatten(ss) == IF ss = <<>> THEN <<>> ELSE Head(ss) \o Flatten(Tail(ss))

Zeros(n) == [i \in 1..n |-> 0]

Range(s) == {s[i] : i \in DOMAIN s}

(***************************************************************************)
(* Code points.  NL is "\n"; LB, RB are the braces; LS, RS the brackets.   *)
(* The value written "u_e9" stands for a string holding U+00E9, which      *)
(* takes two bytes in UTF-8 and one UTF-16 code unit.                      *)
(***************************************************************************)
Punct == [nl |-> 10, sp |-> 32, lb |-> 123, rb |-> 125, ls |-> 91, rs |-> 93,
          garbage |-> 120, replacement |-> 65533]

KeyOrder == <<"type", "requestId", "action", "url", "browser", "browsers", "data", "error">>

KeyCode == [type |-> 116, requestId |-> 114, action |-> 97, url |-> 117,
            browser |-> 98, browsers |-> 66, data |-> 100, error |-> 101]

UUIDs == <<"id1", "id2", "id3", "id4", "id5", "id6">>

AtomCode == [hello |-> 104, command |-> 99, chrome |-> 67, firefox |-> 70,
             unknown |-> 63, status |-> 115, listTabs |-> 108, openTab |-> 111,
             u_e9 |-> 233, tabs |-> 84, UnknownAction |-> 85, frob |-> 102, NoTabWithId |-> 87, garbled |-> 65533,
             NoBrowserConnected |-> 78, RequestTimedOut |-> 82, InvalidJSON |-> 73,
             id1 |-> 49, id2 |-> 50, id3 |-> 51, id4 |-> 52, id5 |-> 53, id6 |-> 54]

Atoms == DOMAIN AtomCode

Keys == DOMAIN KeyCode

KeyOfCode(c) == CHOOSE k \in Keys : KeyCode[k] = c

AtomOfCode(c) == CHOOSE a \in Atoms : AtomCode[a] = c

(***************************************************************************)
(* JavaScript objects are functions from keys to values; a key whose value *)
(* is undefined is left out, as JSON.stringify leaves it out.              *)
(***************************************************************************)
EmptyObj == [k \in {} |-> Undefined]

Get(o, k) == IF k \in DOMAIN o THEN o[k] ELSE Undefined

Truthy(v) == v # Undefined /\ v # ""

Without(o, k) == [x \in DOMAIN o \ {k} |-> o[x]]

Obj1(k, v) == IF v = Undefined THEN EmptyObj ELSE [x \in {k} |-> v]

Spread(base, over) == [x \in DOMAIN base \cup DOMAIN over |->
                         IF x \in DOMAIN over THEN over[x] ELSE base[x]]

(***************************************************************************)
(* JSON.stringify and JSON.parse on the abbreviated texts.                 *)
(***************************************************************************)
ValueText(k, v) ==
  IF k = "browsers"
    THEN <<Punct.ls>> \o [i \in 1..Len(v) |-> AtomCode[v[i]]] \o <<Punct.rs>>
    ELSE <<AtomCode[v]>>

RECURSIVE StringifyKeys(_, _)
StringifyKeys(o, i) ==
  IF i > Len(KeyOrder) THEN <<>>
  ELSE (IF KeyOrder[i] \in DOMAIN o
          THEN <<KeyCode[KeyOrder[i]]>> \o ValueText(KeyOrder[i], o[KeyOrder[i]])
          ELSE <<>>) \o StringifyKeys(o, i + 1)

Stringify(o) == <<Punct.lb>> \o StringifyKeys(o, 1) \o <<Punct.rb>>

KeyCodes == {KeyCode[k] : k \in Keys \ {"browsers"}}

AtomCodes == {AtomCode[a] : a \in Atoms}

\* The text of an object whose one key is browsers, an array of strings.
IsStatusText(text) ==
  /\ Len(text) >= 5
  /\ text[1] = Punct.lb /\ text[2] = KeyCode.browsers /\ text[3] = Punct.ls
  /\ text[Len(text) - 1] = Punct.rs /\ text[Len(text)] = Punct.rb
  /\ \A j \in 4..(Len(text) - 2) : text[j] \in AtomCodes

JsonValid(text) ==
  \/ IsStatusText(text)
  \/ /\ Len(text) >= 2
     /\ text[1] = Punct.lb
     /\ text[Len(text)] = Punct.rb
     /\ (Len(text) - 2) % 2 = 0
     /\ \A j \in 1..((Len(text) - 2) \div 2) :
          text[2 * j] \in KeyCodes /\ text[2 * j + 1] \in AtomCodes

JsonParse(text) ==
  LET n == (Len(text) - 2) \div 2
      ks == {KeyOfCode(text[2 * j]) : j \in 1..n}
      last(k) == CHOOSE j \in 1..n : /\ KeyOfCode(text[2 * j]) = k
                                     /\ \A i \in 1..n : KeyOfCode(text[2 * i]) = k => i <= j
  IN IF IsStatusText(text)
       THEN [browsers |-> [j \in 1..(Len(text) - 5) |-> AtomOfCode(text[j + 3])]]
       ELSE [k \in ks |-> AtomOfCode(text[2 * last(k) + 1])]

(***************************************************************************)
(* UTF-8.                                                                  *)
(***************************************************************************)
Utf8Char(c) ==
  IF c < 128 THEN <<c>>
  ELSE IF c < 2048 THEN <<192 + (c \div 64), 128 + (c % 64)>>
  ELSE <<224 + (c \div 4096), 128 + ((c \div 64) % 64), 128 + (c % 64)>>

Utf8Encode(text) == Flatten([i \in 1..Len(text) |-> Utf8Char(text[i])])

IsCont(b) == b >= 128 /\ b < 192

RECURSIVE Utf8Decode(_)
Utf8Decode(bytes) ==
  IF bytes = <<>> THEN <<>>
  ELSE LET b == bytes[1] IN
    IF b < 128 THEN <<b>> \o Utf8Decode(Drop(bytes, 1))
    ELSE IF b >= 192 /\ b < 224 /\ Len(bytes) >= 2 /\ IsCont(bytes[2])
      THEN <<(b - 192) * 64 + (bytes[2] - 128)>> \o Utf8Decode(Drop(bytes, 2))
    ELSE IF b >= 224 /\ b < 240 /\ Len(bytes) >= 3 /\ IsCont(bytes[2]) /\ IsCont(bytes[3])
      THEN <<(b - 224) * 4096 + (bytes[2] - 128) * 64 + (bytes[3] - 128)>>
             \o Utf8Decode(Drop(bytes, 3))
    ELSE <<Punct.replacement>> \o Utf8Decode(Drop(bytes, 1))

(***************************************************************************)
(* Native messaging: a 4-byte little-endian length, then the body.         *)
(***************************************************************************)
WriteUInt32LE(n) ==
  <<n % 256, (n \div 256) % 256, (n \div 65536) % 256, (n \div 16777216) % 256>>

ReadUInt32LE(buf) == buf[1] + 256 * buf[2] + 65536 * buf[3] + 16777216 * buf[4]

\* buf.write(string, offset): the UTF-8 bytes of the longest prefix of whole
\* characters that fits in `room` bytes; a character that does not fit
\* entirely is not written, nor is anything after it.
RECURSIVE BufWrite(_, _)
BufWrite(text, room) ==
  IF text = <<>> \/ Len(Utf8Char(Head(text))) > room THEN <<>>
  ELSE Utf8Char(Head(text)) \o BufWrite(Tail(text), room - Len(Utf8Char(Head(text))))

\* The Buffer handed to process.stdout.write by writeNativeMessage(msg):
\* Buffer.alloc(4 + json.length) is zero-filled, json.length counts UTF-16
\* code units.
NativeMessage(msg) ==
  LET json == Stringify(msg)
      written == BufWrite(json, Len(json))
  IN WriteUInt32LE(Len(json)) \o written \o Zeros(Len(json) - Len(written))

WriteNativeMessage(s, msg) == [s EXCEPT !.stdout = Append(@, NativeMessage(msg))]

\* A frame as the browser writes it: the length is the body's byte length.
BrowserFrame(text) == WriteUInt32LE(Len(Utf8Encode(text))) \o Utf8Encode(text)

(***************************************************************************)
(* Bridge state.  The handlers are functions on a record of the process's  *)
(* state, so that one event's handler can be composed of the calls it      *)
(* makes.  microQ is the microtask queue: the calls of handleCliRequest    *)
(* whose awaited promise has settled and whose continuation has yet to run.*)
(* handled and skipped record what the current stdin event has given to    *)
(* handleBrowserMessage so far and how many frames it has dropped.         *)
(***************************************************************************)
Conns == 1..MaxConns

InitState ==
  [browserConnected |-> FALSE,
   browserName |-> "null",
   pending |-> EmptyObj,
   timers |-> EmptyObj,
   uuids |-> 0,
   calls |-> <<>>,
   stdout |-> <<>>,
   stdinBuf |-> <<>>,
   connState |-> [c \in Conns |-> "idle"],
   connBuf |-> [c \in Conns |-> <<>>],
   connOut |-> [c \in Conns |-> <<>>],
   microQ |-> <<>>,
   handled |-> <<>>,
   skipped |-> 0]

\* resolve / reject of the promise made by call k of sendToBrowser.  A
\* promise keeps its first settlement; settleCalls counts every invocation.
Settle(s, k, how, v, by) ==
  IF s.calls[k].promise = "pending"
    THEN [s EXCEPT !.calls[k].promise = how,
                   !.calls[k].value = v,
                   !.calls[k].by = by,
                   !.calls[k].settleCalls = @ + 1,
                   !.microQ = Append(@, k)]
    ELSE [s EXCEPT !.calls[k].settleCalls = @ + 1]

ClearTimeout(s, rid) == [s EXCEPT !.timers = Without(@, rid)]

DeletePending(s, rid) == [s EXCEPT !.pending = Without(@, rid)]

HandleBrowserMessage_NoClearTimeout(s0, msg) ==
  LET s == [s0 EXCEPT !.handled = Append(@, msg)] IN
  IF Get(msg, "type") = "hello"
    THEN [s EXCEPT !.browserConnected = TRUE,
                   !.browserName = IF Truthy(Get(msg, "browser")) THEN msg.browser ELSE "unknown"]
  ELSE IF Truthy(Get(msg, "requestId")) /\ msg.requestId \in DOMAIN s.pending
    THEN LET k == s.pending[msg.requestId]
             s1 == DeletePending(s, msg.requestId)
         IN IF Truthy(Get(msg, "error"))
              THEN Settle(s1, k, "rejected", msg.error, "response")
              ELSE Settle(s1, k, "resolved", Get(msg, "data"), "response")
  ELSE s

HandleBrowserMessage_HelloIgnoresLabel(s0, msg) ==
  LET s == [s0 EXCEPT !.handled = Append(@, msg)] IN
  IF Get(msg, "type") = "hello"
    THEN [s EXCEPT !.browserConnected = TRUE, !.browserName = "unknown"]
  ELSE IF Truthy(Get(msg, "requestId")) /\ msg.requestId \in DOMAIN s.pending
    THEN LET k == s.pending[msg.requestId]
             s1 == DeletePending(ClearTimeout(s, msg.requestId), msg.requestId)
         IN IF Truthy(Get(msg, "error"))
              THEN Settle(s1, k, "rejected", msg.error, "response")
              ELSE Settle(s1, k, "resolved", Get(msg, "data"), "response")
  ELSE s

HandleBrowserMessage_KeepsEntry(s0, msg) ==
  LET s == [s0 EXCEPT !.handled = Append(@, msg)] IN
  IF Get(msg, "type") = "hello"
    THEN [s EXCEPT !.browserConnected = TRUE,
                   !.browserName = IF Truthy(Get(msg, "browser")) THEN msg.browser ELSE "unknown"]
  ELSE IF Truthy(Get(msg, "requestId")) /\ msg.requestId \in DOMAIN s.pending
    THEN LET k == s.pending[msg.requestId]
             s1 == ClearTimeout(s, msg.requestId)
         IN IF Truthy(Get(msg, "error"))
              THEN Settle(s1, k, "rejected", msg.error, "response")
              ELSE Settle(s1, k, "resolved", Get(msg, "data"), "response")
  ELSE s

HandleBrowserMessage_OldestPending(s0, msg) ==
  LET s == [s0 EXCEPT !.handled = Append(@, msg)] IN
  IF Get(msg, "type") = "hello"
    THEN [s EXCEPT !.browserConnected = TRUE,
                   !.browserName = IF Truthy(Get(msg, "browser")) THEN msg.browser ELSE "unknown"]
  ELSE IF Truthy(Get(msg, "requestId")) /\ msg.requestId \in DOMAIN s.pending
    THEN LET rid == CHOOSE r \in DOMAIN s.pending :
                      \A q \in DOMAIN s.pending : s.pending[r] <= s.pending[q]
             k == s.pending[rid]
             s1 == DeletePending(ClearTimeout(s, rid), rid)
         IN IF Truthy(Get(msg, "error"))
              THEN Settle(s1, k, "rejected", msg.error, "response")
              ELSE Settle(s1, k, "resolved", Get(msg, "data"), "response")
  ELSE s

HandleBrowserMessage(s0, msg) ==
  LET s == [s0 EXCEPT !.handled = Append(@, msg)] IN
  IF Get(msg, "type") = "hello"
    THEN [s EXCEPT !.browserConnected = TRUE,
                   !.browserName = IF Truthy(Get(msg, "browser")) THEN msg.browser ELSE "unknown"]
  ELSE IF Truthy(Get(msg, "requestId")) /\ msg.requestId \in DOMAIN s.pending
    THEN LET k == s.pending[msg.requestId]
             s1 == DeletePending(ClearTimeout(s, msg.requestId), msg.requestId)
         IN IF Truthy(Get(msg, "error"))
              THEN Settle(s1, k, "rejected", msg.error, "response")
              ELSE Settle(s1, k, "resolved", Get(msg, "data"), "response")
  ELSE s

(***************************************************************************)
(* stdin: the reassembly buffer and the decoding loop.                     *)
(***************************************************************************)
RECURSIVE ProcessStdin_StopsAtCorrupt(_)
ProcessStdin_StopsAtCorrupt(s) ==
  IF Len(s.stdinBuf) < 4 THEN s
  ELSE LET msgLen == ReadUInt32LE(s.stdinBuf) IN
    IF Len(s.stdinBuf) < 4 + msgLen THEN s
    ELSE LET json == Utf8Decode(SubSeq(s.stdinBuf, 5, 4 + msgLen))
             s1 == [s EXCEPT !.stdinBuf = Drop(@, 4 + msgLen)]
         IN IF ~JsonValid(json)
              THEN [s1 EXCEPT !.skipped = @ + 1]
              ELSE ProcessStdin_StopsAtCorrupt(HandleBrowserMessage(s1, JsonParse(json)))

RECURSIVE ProcessStdin(_)
ProcessStdin(s) ==
  IF Len(s.stdinBuf) < 4 THEN s
  ELSE LET msgLen == ReadUInt32LE(s.stdinBuf) IN
    IF Len(s.stdinBuf) < 4 + msgLen THEN s
    ELSE LET json == Utf8Decode(SubSeq(s.stdinBuf, 5, 4 + msgLen))
             s1 == [s EXCEPT !.stdinBuf = Drop(@, 4 + msgLen)]
         IN IF ~JsonValid(json)
              THEN ProcessStdin([s1 EXCEPT !.skipped = @ + 1])
              ELSE ProcessStdin(HandleBrowserMessage(s1, JsonParse(json)))

(***************************************************************************)
(* sendToBrowser, called by call k of handleCliRequest.                    *)
(***************************************************************************)
SetTimeout(s, rid, k) ==
  [s EXCEPT !.timers = Spread(@, [x \in {rid} |-> [remaining |-> REQUEST_TIMEOUT, elapsed |-> 0, call |-> k]])]

SendToBrowser_GuardAfterRegistering(s, k, action, params) ==
  LET requestId == UUIDs[s.uuids + 1]
      s1 == [s EXCEPT !.uuids = @ + 1, !.calls[k].rid = requestId]
      s2 == SetTimeout(s1, requestId, k)
      s3 == [s2 EXCEPT !.pending = Spread(@, [x \in {requestId} |-> k])]
  IN IF ~s.browserConnected
       THEN Settle(s3, k, "rejected", "NoBrowserConnected", "guard")
       ELSE WriteNativeMessage(s3,
              Spread([type |-> "command", requestId |-> requestId] @@ Obj1("action", action),
                     params))

SendToBrowser(s, k, action, params) ==
  IF ~s.browserConnected
    THEN Settle(s, k, "rejected", "NoBrowserConnected", "guard")
    ELSE LET requestId == UUIDs[s.uuids + 1]
             s1 == [s EXCEPT !.uuids = @ + 1, !.calls[k].rid = requestId]
             s2 == SetTimeout(s1, requestId, k)
             s3 == [s2 EXCEPT !.pending = Spread(@, [x \in {requestId} |-> k])]
         IN WriteNativeMessage(s3,
              Spread([type |-> "command", requestId |-> requestId] @@ Obj1("action", action),
                     params))

(***************************************************************************)
(* The socket side.                                                        *)
(***************************************************************************)
ConnWrite(s, c, text) ==
  IF s.connState[c] = "open"
    THEN [s EXCEPT !.connOut[c] = @ \o text \o <<Punct.nl>>]
    ELSE s

NewCall(c, msg) ==
  [conn |-> c, msg |-> msg, rid |-> Undefined, promise |-> "pending", value |-> Undefined,
   by |-> "none", settleCalls |-> 0, writes |-> 0]

\* handleCliRequest up to its await (or to its end, for status).
HandleCliRequest(s, msg, c) ==
  LET action == Get(msg, "action")
      params == Without(msg, "action")
  IN IF action = "status"
       THEN ConnWrite(s, c, Stringify([browsers |-> IF s.browserConnected
                                                      THEN <<s.browserName>> ELSE <<>>]))
       ELSE LET k == Len(s.calls) + 1
            IN SendToBrowser([s EXCEPT !.calls = Append(@, NewCall(c, msg))], k, action, params)

ResumeCliRequest_NoCatch(s, k) ==
  LET call == s.calls[k]
      s1 == [s EXCEPT !.calls[k].writes = @ + 1]
  IN IF call.promise = "resolved"
       THEN ConnWrite(s1, call.conn, Stringify(Obj1("data", call.value)))
       ELSE s

\* handleCliRequest after its await, for call k whose promise has settled.
ResumeCliRequest(s, k) ==
  LET call == s.calls[k]
      s1 == [s EXCEPT !.calls[k].writes = @ + 1]
  IN IF call.promise = "resolved"
       THEN ConnWrite(s1, call.conn, Stringify(Obj1("data", call.value)))
       ELSE ConnWrite(s1, call.conn, Stringify(Obj1("error", call.value)))

RECURSIVE RunMicrotasks(_)
RunMicrotasks(s) ==
  IF s.microQ = <<>> THEN s
  ELSE RunMicrotasks(ResumeCliRequest([s EXCEPT !.microQ = Tail(@)], Head(s.microQ)))

\* buf.split('\n'): the pieces between the newlines, the last one being what
\* follows the last newline.
RECURSIVE Split(_, _)
Split(text, cur) ==
  IF text = <<>> THEN <<cur>>
  ELSE IF Head(text) = Punct.nl THEN <<cur>> \o Split(Tail(text), <<>>)
  ELSE Split(Tail(text), Append(cur, Head(text)))

Blank(line) == \A i \in 1..Len(line) : line[i] = Punct.sp

ConnLine(s, c, line) ==
  IF Blank(line) THEN s
  ELSE IF ~JsonValid(line) THEN ConnWrite(s, c, Stringify([error |-> "InvalidJSON"]))
  ELSE HandleCliRequest(s, JsonParse(line), c)

RECURSIVE ConnLines_StopAtInvalid(_, _, _)
ConnLines_StopAtInvalid(s, c, lines) ==
  IF lines = <<>> THEN s
  ELSE IF ~Blank(Head(lines)) /\ ~JsonValid(Head(lines)) THEN ConnLine(s, c, Head(lines))
  ELSE ConnLines_StopAtInvalid(ConnLine(s, c, Head(lines)), c, Tail(lines))

RECURSIVE ConnLines_LastFirst(_, _, _)
ConnLines_LastFirst(s, c, lines) ==
  IF lines = <<>> THEN s
  ELSE ConnLine(ConnLines_LastFirst(s, c, Tail(lines)), c, Head(lines))

RECURSIVE ConnLines(_, _, _)
ConnLines(s, c, lines) ==
  IF lines = <<>> THEN s
  ELSE ConnLines(ConnLine(s, c, Head(lines)), c, Tail(lines))

\* conn.on('data'), with the microtasks it leaves behind.
ConnOnData(s, c, chunk) ==
  LET pieces == Split(s.connBuf[c] \o chunk, <<>>)
      s1 == [s EXCEPT !.connBuf[c] = pieces[Len(pieces)]]
  IN RunMicrotasks(ConnLines(s1, c, SubSeq(pieces, 1, Len(pieces) - 1)))

\* The abbreviated texts write a string value as one code.  A string whose
\* characters were replaced by U+FFFD is written as the one code "garbled",
\* however many replacement characters it holds.
RECURSIVE OneValue(_)
OneValue(text) ==
  IF Len(text) < 2 THEN text
  ELSE IF text[1] = Punct.replacement /\ text[2] = Punct.replacement THEN OneValue(Tail(text))
  ELSE <<Head(text)>> \o OneValue(Tail(text))

\* conn.on('data') given the bytes of a chunk: buf += chunk.toString()
\* decodes each chunk by itself.
ConnOnChunk(s, c, bytes) ==
  ConnOnData([s EXCEPT !.connBuf[c] = <<>>], c, OneValue(s.connBuf[c] \o Utf8Decode(bytes)))

ConnOnClose_Cancels(s, c) ==
  LET gone == {rid \in DOMAIN s.pending : s.calls[s.pending[rid]].conn = c}
  IN [s EXCEPT !.connState[c] = "closed",
               !.pending = [rid \in DOMAIN s.pending \ gone |-> s.pending[rid]],
               !.timers = [rid \in DOMAIN s.timers \ gone |-> s.timers[rid]]]

\* The client's end of a connection goes away (it closed, or the socket
\* broke).  The bridge registers no 'close' or 'end' listener and its
\* 'error' listener is empty: nothing of the bridge's own state changes.  A
\* later conn.write on the socket fails with an 'error' event on conn,
\* which the same empty listener takes (ConnWrite).
ConnOnClose(s, c) == [s EXCEPT !.connState[c] = "closed"]

\* process.stdin.on('data'), with the microtasks it leaves behind.
StdinOnData(s, chunk) ==
  RunMicrotasks(ProcessStdin([s EXCEPT !.stdinBuf = @ \o chunk, !.handled = <<>>, !.skipped = 0]))

OnTimeout_KeepsPending(s, rid) ==
  LET k == s.timers[rid].call
      s1 == [s EXCEPT !.timers = Without(@, rid)]
  IN RunMicrotasks(Settle(s1, k, "rejected", "RequestTimedOut", "timer"))

\* The timer callback of sendToBrowser, with the microtasks it leaves behind.
OnTimeout(s, rid) ==
  LET k == s.timers[rid].call
      s1 == [s EXCEPT !.timers = Without(@, rid)]
  IN RunMicrotasks(Settle(DeletePending(s1, rid), k, "rejected", "RequestTimedOut", "timer"))

(***************************************************************************)
(* The state of the bridge process and of the pipe that feeds its stdin.   *)
(***************************************************************************)
VARIABLES browserConnected, browserName, pending, timers, uuids, calls, stdout,
          stdinBuf, connState, connBuf, connOut, lastHello, wire, sent, delivered,
          files, command, requests, outcome, now, idText, parsed,
          formatted, proc, sock, ext

vars == <<browserConnected, browserName, pending, timers, uuids, calls, stdout,
          stdinBuf, connState, connBuf, connOut, lastHello, wire, sent, delivered,
          files, command, requests, outcome, now, idText, parsed,
          formatted, proc, sock, ext>>

bridgeVars == <<browserConnected, browserName, pending, timers, uuids, calls, stdout,
                stdinBuf, connState, connBuf, connOut>>

\* lastHello: the browser field of the hello the extension has sent ("none"
\* before it), kept by the pipe's writer, not by the bridge.  wire: the bytes
\* written to the bridge's stdin and not yet read; sent: the messages
\* encoded onto it; delivered: the messages handleBrowserMessage has been
\* given.
codecVars == <<wire, sent, delivered>>

\* The client process (one command per process).  files: the socket paths
\* that exist; command: the command the process was started with;
\* requests: its requestOne calls; outcome: the promise of the command;
\* now: milliseconds since the command started.  idText, parsed: an
\* identifier given on the command line and what its parser made of it.
clientVars == <<files, command, requests, outcome, now, idText, parsed>>

\* formatted: the last call of one of the client's formatters and what it
\* returned.
formatVars == <<formatted>>

\* The bridge as a process.  proc: where each bridge process is in its
\* life; sock: what is at SOCKET_PATH in the file system.
hostVars == <<proc, sock>>

\* The extension's background script: what it keeps in storage.local under
\* STORAGE_KEY, its tabUrls, and its event handlers that have not finished.
extVars == <<ext>>

(***************************************************************************)
(* Tab tracking of the background script.  storage is the object kept      *)
(* under STORAGE_KEY: for each URL a record, or none.  A handler is an     *)
(* async function: it runs up to an await, and its continuation runs when  *)
(* the awaited storage read or write has completed, with other handlers    *)
(* running in between.  pc is the await a handler stands at: "load" (the   *)
(* get of loadTracking), "load2" (the get inside updateTracking, for       *)
(* onActivated, which has read once already), "save" (the set of           *)
(* saveTracking), or "done".  activations and navigations count the events *)
(* handled, per URL.                                                       *)
(***************************************************************************)
TabA == <<"a">>

TabB == <<"b">>

TrackedUrls == {TabA, TabB}

Tabs == 1..2

NoTab == <<>>

\* data[url] || {}: a URL without a record reads as the empty object, whose
\* counters read as (undefined || 0).
NoRecord == [tracked |-> FALSE, activationCount |-> 0, navigationCount |-> 0]

\* initTracking has run with one open tab, at TabA.
InitExt ==
  [storage |-> [u \in TrackedUrls |->
                  IF u = TabA THEN [NoRecord EXCEPT !.tracked = TRUE] ELSE NoRecord],
   tabUrls |-> [t \in Tabs |-> IF t = 1 THEN TabA ELSE NoTab],
   handlers |-> <<>>,
   activations |-> [u \in TrackedUrls |-> 0],
   navigations |-> [u \in TrackedUrls |-> 0],
   overlapped |-> FALSE]

Unfinished(x) == \E i \in DOMAIN x.handlers : x.handlers[i].pc # "done"

Started(x, h) ==
  [x EXCEPT !.handlers = Append(@, h), !.overlapped = @ \/ Unfinished(x)]

\* api.tabs.onCreated listener, up to the await in updateTracking.
onCreated(x, t, url) ==
  Started([x EXCEPT !.tabUrls[t] = url],
          [kind |-> "created", pc |-> "load", url |-> url, newUrl |-> url,
           count |-> 0, data |-> x.storage])

\* api.tabs.onActivated listener, up to its await of loadTracking.
onActivated(x, t) ==
  LET url == x.tabUrls[t] IN
  IF url = NoTab THEN x
  ELSE Started([x EXCEPT !.activations[url] = @ + 1],
               [kind |-> "activated", pc |-> "load", url |-> url, newUrl |-> url,
                count |-> 0, data |-> x.storage])

\* api.tabs.onUpdated listener with changeInfo.url, up to its await.
onUpdated(x, t, newUrl) ==
  Started([x EXCEPT !.tabUrls[t] = newUrl, !.navigations[newUrl] = @ + 1],
          [kind |-> "updated", pc |-> "load", url |-> x.tabUrls[t], newUrl |-> newUrl,
           count |-> 0, data |-> x.storage])

\* The continuation after loadTracking: the handler has the storage as it
\* is now, changes its copy and calls saveTracking with it (or, in
\* onActivated, computes the new count and calls updateTracking).
loadTracking(x, i) ==
  LET h == x.handlers[i]
      data == x.storage
  IN IF h.kind = "created"
       THEN [x EXCEPT !.handlers[i].pc = "save",
                      !.handlers[i].data =
                         [data EXCEPT ![h.url] = [tracked |-> TRUE, activationCount |-> 0,
                                                  navigationCount |-> 0]]]
     ELSE IF h.kind = "activated"
       THEN IF h.pc = "load"
              THEN [x EXCEPT !.handlers[i].pc = "load2",
                             !.handlers[i].count = data[h.url].activationCount + 1]
              ELSE [x EXCEPT !.handlers[i].pc = "save",
                             !.handlers[i].data =
                                [data EXCEPT ![h.url] = [@ EXCEPT !.tracked = TRUE,
                                                                  !.activationCount = h.count]]]
     ELSE LET existing == IF h.url = NoTab THEN NoRecord ELSE data[h.url]
              moved == IF h.url # NoTab /\ h.url # h.newUrl
                         THEN [data EXCEPT ![h.url] = NoRecord] ELSE data
          IN [x EXCEPT !.handlers[i].pc = "save",
                       !.handlers[i].data =
                          [moved EXCEPT ![h.newUrl] = [existing EXCEPT !.tracked = TRUE,
                                                                       !.navigationCount = @ + 1]]]

\* The set of saveTracking takes effect; the handler ends.
saveTracking(x, i) ==
  [x EXCEPT !.storage = x.handlers[i].data, !.handlers[i].pc = "done"]

NoCommand == [name |-> "none"]

NotFormatted == [fn |-> "none"]

\* The bridge processes of one user: each browser starts its own, and all
\* of them run the same program with the same SOCKET_PATH.
Bridges == 1..MaxBridges

\* A process: phase is "none" before it is started, "running" until it
\* exits, "exited" after; listening: its server accepts connections;
\* callbackPending: server.listen's callback is still to run;
\* errorPending: the server's 'error' event is still to be emitted;
\* faults: the uncaught exceptions its handler has logged; code, by: the
\* status it exited with and the handler that made it exit; found: what
\* was at SOCKET_PATH when it started; bindFailed: its bind failed.
NotStartedProc ==
  [phase |-> "none", listening |-> FALSE, callbackPending |-> FALSE, errorPending |-> FALSE,
   faults |-> 0, code |-> 0, by |-> "none", found |-> "none", bindFailed |-> FALSE]

\* The mode fs.chmodSync gives the socket file.
OwnerOnly == 384

\* What is at SOCKET_PATH.  owner is the bridge that bound it, 0 for no
\* bridge of this model; removable: this user may unlink it.
NoFile == [exists |-> FALSE, owner |-> 0, mode |-> 0, removable |-> TRUE]

\* The state the bridge model above starts in: bridge 1 is up.
InitRunning ==
  /\ proc = [p \in Bridges |->
              IF p = 1 THEN [NotStartedProc EXCEPT !.phase = "running", !.listening = TRUE]
              ELSE NotStartedProc]
  /\ sock = [exists |-> TRUE, owner |-> 1, mode |-> OwnerOnly, removable |-> TRUE]

NotStarted == [status |-> "none"]

NotParsed == [fn |-> "none"]

State ==
  [browserConnected |-> browserConnected, browserName |-> browserName,
   pending |-> pending, timers |-> timers, uuids |-> uuids, calls |-> calls,
   stdout |-> stdout, stdinBuf |-> stdinBuf, connState |-> connState,
   connBuf |-> connBuf, connOut |-> connOut, microQ |-> <<>>,
   handled |-> <<>>, skipped |-> 0]

Becomes(s) ==
  /\ browserConnected' = s.browserConnected
  /\ browserName' = s.browserName
  /\ pending' = s.pending
  /\ timers' = s.timers
  /\ uuids' = s.uuids
  /\ calls' = s.calls
  /\ stdout' = s.stdout
  /\ stdinBuf' = s.stdinBuf
  /\ connState' = s.connState
  /\ connBuf' = s.connBuf
  /\ connOut' = s.connOut

InitBridge ==
  /\ browserConnected = InitState.browserConnected
  /\ browserName = InitState.browserName
  /\ pending = InitState.pending
  /\ timers = InitState.timers
  /\ uuids = InitState.uuids
  /\ calls = InitState.calls
  /\ stdout = InitState.stdout
  /\ stdinBuf = InitState.stdinBuf
  /\ connState = InitState.connState
  /\ connBuf = InitState.connBuf
  /\ connOut = InitState.connOut
  /\ lastHello = "none"
  /\ wire = <<>>
  /\ sent = <<>>
  /\ delivered = <<>>

Init ==
  /\ InitBridge
  /\ files = {}
  /\ command = NoCommand
  /\ requests = <<>>
  /\ outcome = NotStarted
  /\ now = 0
  /\ idText = <<>>
  /\ parsed = NotParsed
  /\ formatted = NotFormatted
  /\ ext = InitExt
  /\ InitRunning

(***************************************************************************)
(* What the clients and the browser may send.                              *)
(***************************************************************************)
SocketRequests ==
  {[action |-> "status"], [action |-> "listTabs"], [action |-> "openTab", url |-> "u_e9"],
   [action |-> "frob"]}

LineTexts == {Stringify(r) : r \in SocketRequests} \cup {<<Punct.garbage>>, <<Punct.sp>>}

SeqsUpTo(S, n) == UNION {[1..m -> S] : m \in 1..n}

Forwarded(line) == JsonValid(line) /\ Get(JsonParse(line), "action") # "status"

Count(seq, P(_)) == Cardinality({i \in DOMAIN seq : P(seq[i])})

IsNewline(ch) == ch = Punct.nl

Unanswered(call) == call.writes = 0

NotBlank(line) == ~Blank(line)

\* Lines received so far that have been or are still to be answered.
LinesUsed ==
  Count(calls, Unanswered)
    + Count(Flatten([c \in Conns |-> connOut[c]]), IsNewline)

Hellos == {[type |-> "hello", browser |-> "chrome"], [type |-> "hello", browser |-> "firefox"],
           [type |-> "hello"]}

HelloTexts == {Stringify(m) : m \in Hellos}

IsHelloText(body) == body \in HelloTexts

Responses(rid) == {[requestId |-> rid, data |-> "tabs"], [requestId |-> rid, error |-> "UnknownAction"]}

Issued == {UUIDs[i] : i \in 1..uuids}

BrowserMessages == Hellos \cup UNION {Responses(rid) : rid \in Issued}

FrameBodies == {Stringify(m) : m \in BrowserMessages} \cup {<<Punct.garbage>>}

(***************************************************************************)
(* Actions of the bridge.                                                  *)
(***************************************************************************)
ConnAccept(c) ==
  /\ connState[c] = "idle"
  /\ \A d \in Conns : d < c => connState[d] # "idle"
  /\ connState' = [connState EXCEPT ![c] = "open"]
  /\ connBuf' = [connBuf EXCEPT ![c] = <<>>]
  /\ UNCHANGED <<browserConnected, browserName, pending, timers, uuids, calls, stdout,
                 stdinBuf, connOut, lastHello>>
  /\ UNCHANGED codecVars
  /\ UNCHANGED <<clientVars, formatVars, hostVars, extVars>>

ConnData(c, lines) ==
  /\ connState[c] = "open"
  /\ LinesUsed + Count(lines, NotBlank) <= MaxLines
  /\ Len(calls) + Count(lines, Forwarded) <= MaxCalls
  /\ \E s \in {ConnOnData(State, c, Flatten([i \in DOMAIN lines |-> lines[i] \o <<Punct.nl>>]))} :
       Becomes(s)
  /\ UNCHANGED lastHello
  /\ UNCHANGED codecVars
  /\ UNCHANGED <<clientVars, formatVars, hostVars, extVars>>

\* The extension sends hello once, right after connecting (background.js).
StdinData(bodies) ==
  /\ Count(bodies, IsHelloText) <= (IF lastHello = "none" THEN 1 ELSE 0)
  /\ lastHello' = IF \E i \in DOMAIN bodies : IsHelloText(bodies[i])
                    THEN Get(JsonParse(bodies[CHOOSE i \in DOMAIN bodies : IsHelloText(bodies[i])]),
                             "browser")
                    ELSE lastHello
  /\ \E s \in {StdinOnData(State, Flatten([i \in DOMAIN bodies |-> BrowserFrame(bodies[i])]))} :
       Becomes(s)
  /\ UNCHANGED codecVars
  /\ UNCHANGED <<clientVars, formatVars, hostVars, extVars>>

TimerFire(rid) ==
  /\ rid \in DOMAIN timers
  /\ timers[rid].remaining = 0
  /\ \E s \in {OnTimeout(State, rid)} : Becomes(s)
  /\ UNCHANGED lastHello
  /\ UNCHANGED codecVars
  /\ UNCHANGED <<clientVars, formatVars, hostVars, extVars>>

\* TickMs milliseconds pass.
Tick ==
  /\ \E rid \in DOMAIN timers : timers[rid].remaining > 0
  /\ timers' = [rid \in DOMAIN timers |->
                  [timers[rid] EXCEPT !.remaining = Max(0, @ - TickMs),
                                      !.elapsed = Min(@ + TickMs, REQUEST_TIMEOUT)]]
  /\ UNCHANGED <<browserConnected, browserName, pending, uuids, calls, stdout, stdinBuf,
                 connState, connBuf, connOut, lastHello>>
  /\ UNCHANGED codecVars
  /\ UNCHANGED <<clientVars, formatVars, hostVars, extVars>>

Next ==
  \/ \E c \in Conns : ConnAccept(c)
  \/ \E c \in Conns : \E lines \in SeqsUpTo(LineTexts, MaxLinesPerChunk) : ConnData(c, lines)
  \/ \E bodies \in SeqsUpTo(FrameBodies, MaxFramesPerChunk) : StdinData(bodies)
  \/ \E rid \in DOMAIN timers : TimerFire(rid)
  \/ Tick

Spec == Init /\ [][Next]_vars

\* The event loop runs a timer that is due, and time passes.
SpecLive == Spec /\ WF_vars(Tick) /\ \A i \in DOMAIN UUIDs : WF_vars(TimerFire(UUIDs[i]))

(***************************************************************************)
(* The frame codec alone: messages encoded by writeNativeMessage are put   *)
(* on a pipe and fed to the stdin decoder in chunks of every size.         *)
(***************************************************************************)
CodecMessages ==
  {[type |-> "hello", browser |-> "chrome"],
   [requestId |-> "id1", data |-> "tabs"],
   [requestId |-> "id1", url |-> "u_e9"]}

CodecWrite(msg) ==
  /\ Len(sent) < MaxWireFrames
  /\ \E s \in {WriteNativeMessage(State, msg)} :
       /\ Becomes(s)
       /\ wire' = wire \o s.stdout[Len(s.stdout)]
  /\ sent' = Append(sent, msg)
  /\ UNCHANGED <<lastHello, delivered>>
  /\ UNCHANGED <<clientVars, formatVars, hostVars, extVars>>

CodecFeed(n) ==
  /\ \E s \in {StdinOnData(State, Take(wire, n))} :
       /\ Becomes(s)
       /\ delivered' = delivered \o s.handled
  /\ wire' = Drop(wire, n)
  /\ UNCHANGED <<lastHello, sent>>
  /\ UNCHANGED <<clientVars, formatVars, hostVars, extVars>>

NextCodec ==
  \/ \E msg \in CodecMessages : CodecWrite(msg)
  \/ \E n \in 1..Len(wire) : CodecFeed(n)

SpecCodec == Init /\ [][NextCodec]_vars

(***************************************************************************)
(* The client (cli.js).  A text is a sequence of characters; null is the   *)
(* one-element sequence Null, which no text equals.                        *)
(***************************************************************************)
Null == <<"null">>

Digits == {"0", "1", "2", "3", "4", "5", "6", "7", "8", "9"}

DigitVal == [d \in Digits |->
               CHOOSE n \in 0..9 : d = <<"0", "1", "2", "3", "4", "5", "6", "7", "8", "9">>[n + 1]]

Firefox == <<"f", "i", "r", "e", "f", "o", "x">>

Chrome == <<"c", "h", "r", "o", "m", "e">>

KNOWN_BROWSERS == <<Firefox, Chrome>>

TIMEOUT == 10000

socketPath(browser) == <<"/tmp/tabctl-">> \o browser \o <<".sock">>

\* A label that is neither null nor the empty string.
Given(browser) == browser # Null /\ browser # <<>>

findSockets_NoExistsCheck(fs, filterBrowser) ==
  LET browsers == IF Given(filterBrowser) THEN <<filterBrowser>> ELSE KNOWN_BROWSERS
  IN [i \in DOMAIN browsers |-> [browser |-> browsers[i], path |-> socketPath(browsers[i])]]

\* fs: the set of paths that exist.
findSockets(fs, filterBrowser) ==
  LET browsers == IF Given(filterBrowser) THEN <<filterBrowser>> ELSE KNOWN_BROWSERS
      all == [i \in DOMAIN browsers |-> [browser |-> browsers[i], path |-> socketPath(browsers[i])]]
  IN SelectSeq(all, LAMBDA s : s.path \in fs)

\* str.indexOf(ch), 0-based, -1 when absent.
IndexOf(str, ch) ==
  IF \E i \in DOMAIN str : str[i] = ch
    THEN (CHOOSE i \in DOMAIN str : str[i] = ch /\ \A j \in 1..(i - 1) : str[j] # ch) - 1
    ELSE -1

RECURSIVE SkipSpace(_)
SkipSpace(str) == IF str # <<>> /\ Head(str) = " " THEN SkipSpace(Tail(str)) ELSE str

RECURSIVE DigitPrefix(_)
DigitPrefix(str) ==
  IF str # <<>> /\ Head(str) \in Digits THEN <<Head(str)>> \o DigitPrefix(Tail(str)) ELSE <<>>

RECURSIVE Decimal(_)
Decimal(ds) ==
  IF ds = <<>> THEN 0 ELSE 10 * Decimal(SubSeq(ds, 1, Len(ds) - 1)) + DigitVal[ds[Len(ds)]]

\* parseInt(str, 10): leading white space, an optional sign, then the
\* longest run of digits; whatever follows the digits is ignored.
parseInt(str) ==
  LET t == SkipSpace(str)
      signed == t # <<>> /\ Head(t) \in {"-", "+"}
      ds == DigitPrefix(IF signed THEN Tail(t) ELSE t)
  IN IF ds = <<>> THEN [isNaN |-> TRUE, n |-> 0]
     ELSE [isNaN |-> FALSE, n |-> IF signed /\ Head(t) = "-" THEN 0 - Decimal(ds) ELSE Decimal(ds)]

Throw(message, id) == [error |-> message, id |-> id]

Threw(r) == "error" \in DOMAIN r

parsePrefixedId_SliceAtColon(fs, id) ==
  LET colonIdx == IndexOf(id, ":") IN
  IF colonIdx # -1
    THEN LET browser == SubSeq(id, 1, colonIdx)
             tabId == parseInt(SubSeq(id, colonIdx + 1, Len(id)))
         IN IF tabId.isNaN THEN Throw("Invalid tab ID", id)
            ELSE [browser |-> browser, tabId |-> tabId.n]
    ELSE Throw("Invalid tab ID", id)

parsePrefixedId(fs, id) ==
  LET colonIdx == IndexOf(id, ":") IN
  IF colonIdx # -1
    THEN LET browser == SubSeq(id, 1, colonIdx)
             tabId == parseInt(SubSeq(id, colonIdx + 2, Len(id)))
         IN IF tabId.isNaN THEN Throw("Invalid tab ID", id)
            ELSE [browser |-> browser, tabId |-> tabId.n]
    ELSE LET tabId == parseInt(id)
             sockets == findSockets(fs, Null)
         IN IF tabId.isNaN THEN Throw("Invalid tab ID", id)
            ELSE [browser |-> IF Len(sockets) = 1 THEN sockets[1].browser ELSE Null,
                  tabId |-> tabId.n]

parseTabId(id) ==
  LET n == parseInt(id)
  IN IF n.isNaN THEN Throw("Invalid tab ID", id) ELSE [value |-> n.n]

parseWindowId_Unanchored(id) ==
  LET digits == IF id # <<>> /\ Head(id) = "w" THEN Tail(id) ELSE id
  IN IF DigitPrefix(digits) # <<>>
       THEN [value |-> parseInt(DigitPrefix(digits)).n]
       ELSE Throw("Invalid window ID", id)

\* /^w?(\d+)$/
parseWindowId(id) ==
  LET digits == IF id # <<>> /\ Head(id) = "w" THEN Tail(id) ELSE id
  IN IF digits # <<>> /\ \A i \in DOMAIN digits : digits[i] \in Digits
       THEN [value |-> parseInt(digits).n]
       ELSE Throw("Invalid window ID", id)

(***************************************************************************)
(* The identifier parsers alone, applied to every short text.              *)
(***************************************************************************)
IdChars == {"4", "2", "0", "w", "x", ":", "-", " "}

ShortTexts == {<<>>} \cup SeqsUpTo(IdChars, MaxIdLen)

IdTexts == ShortTexts \cup {b \o <<":">> \o str : b \in {Firefox, Chrome}, str \in ShortTexts}

KnownPaths == {socketPath(KNOWN_BROWSERS[i]) : i \in DOMAIN KNOWN_BROWSERS}

InitIds ==
  /\ InitBridge
  /\ files \in SUBSET KnownPaths
  /\ command = NoCommand
  /\ requests = <<>>
  /\ outcome = NotStarted
  /\ now = 0
  /\ idText \in IdTexts
  /\ parsed = NotParsed
  /\ formatted = NotFormatted
  /\ ext = InitExt
  /\ InitRunning

Parsed(fn, result) ==
  /\ parsed = NotParsed
  /\ parsed' = [fn |-> fn, result |-> result]
  /\ UNCHANGED <<bridgeVars, lastHello, codecVars, files, command, requests, outcome, now, idText,
               formatVars, hostVars, extVars>>

CallParsePrefixedId == Parsed("parsePrefixedId", parsePrefixedId(files, idText))

CallParseTabId == Parsed("parseTabId", parseTabId(idText))

CallParseWindowId == Parsed("parseWindowId", parseWindowId(idText))

NextIds == CallParsePrefixedId \/ CallParseTabId \/ CallParseWindowId

SpecIds == InitIds /\ [][NextIds]_vars

(***************************************************************************)
(* requestOne.  A call is a record: the socket it connects to, the message *)
(* it is to send, the state of the connection, what has been written on    *)
(* it, the closure's buf, done and timer, and the promise (settleCalls     *)
(* counts the calls of resolve and reject; only the first one settles).    *)
(***************************************************************************)
Error(message) == [message |-> message]

NoBrowsers == Error("No browsers connected")

requestOne(cl, socketFile, msg) ==
  [cl EXCEPT !.requests = Append(@,
     [path |-> socketFile, msg |-> msg, conn |-> "connecting", written |-> <<>>,
      buf |-> <<>>, done |-> FALSE, timer |-> "armed", due |-> cl.now + TIMEOUT,
      promise |-> "pending", value |-> <<>>, settleCalls |-> 0, by |-> "none"])]

SettleRequest(r, how, v, by) ==
  [r EXCEPT !.settleCalls = @ + 1,
            !.promise = IF r.promise = "pending" THEN how ELSE @,
            !.value = IF r.promise = "pending" THEN <<v>> ELSE @,
            !.by = IF r.promise = "pending" THEN by ELSE @]

clearTimeout(r) == [r EXCEPT !.timer = IF @ = "armed" THEN "cleared" ELSE @]

\* The callback of setTimeout(..., TIMEOUT).
OnRequestTimer(r) ==
  LET r1 == [r EXCEPT !.timer = "fired"] IN
  IF ~r.done
    THEN SettleRequest([r1 EXCEPT !.done = TRUE, !.conn = "destroyed"],
                       "rejected", Error("Request timed out"), "timer")
    ELSE r1

\* What JSON.parse gives the client for the value of data: the array or
\* object that the abbreviated texts write as one atom.
DataValue(atom) == [json |-> atom]

\* conn.on('connect')
OnConnect(r) == [r EXCEPT !.conn = "open", !.written = Append(@, r.msg)]

OnData_NotDone(r, chunk) ==
  LET buf == r.buf \o chunk
      idx == IndexOf(buf, Punct.nl)
  IN IF idx # -1
       THEN LET line == SubSeq(buf, 1, idx)
                r1 == [r EXCEPT !.buf = buf]
            IN IF JsonValid(line)
                 THEN LET resp == JsonParse(line) IN
                      IF Truthy(Get(resp, "error"))
                        THEN SettleRequest(r1, "rejected", Error(resp.error), "data")
                        ELSE SettleRequest(r1, "fulfilled",
                                           IF "data" \in DOMAIN resp THEN DataValue(resp.data) ELSE resp,
                                           "data")
                 ELSE SettleRequest(r1, "rejected",
                                    Error("Invalid response from native host"), "data")
       ELSE [r EXCEPT !.buf = buf]

\* conn.on('data')
OnData(r, chunk) ==
  LET buf == r.buf \o chunk
      idx == IndexOf(buf, Punct.nl)
  IN IF idx # -1
       THEN LET line == SubSeq(buf, 1, idx)
                r1 == [clearTimeout(r) EXCEPT !.buf = buf, !.done = TRUE, !.conn = "destroyed"]
            IN IF JsonValid(line)
                 THEN LET resp == JsonParse(line) IN
                      IF Truthy(Get(resp, "error"))
                        THEN SettleRequest(r1, "rejected", Error(resp.error), "data")
                        ELSE SettleRequest(r1, "fulfilled",
                                           IF "data" \in DOMAIN resp THEN DataValue(resp.data) ELSE resp,
                                           "data")
                 ELSE SettleRequest(r1, "rejected",
                                    Error("Invalid response from native host"), "data")
       ELSE [r EXCEPT !.buf = buf]

\* conn.on('error') of the earlier client (part_000), which tells the user
\* that the native host cannot be reached.
OnErrorOld(r, err) ==
  LET r0 == [r EXCEPT !.conn = "errored"] IN
  IF ~r.done
    THEN SettleRequest([clearTimeout(r0) EXCEPT !.done = TRUE], "rejected",
                       IF err.code \in {"ECONNREFUSED", "ENOENT"}
                         THEN Error("Cannot connect to native host") ELSE err,
                       "error")
    ELSE r0

\* conn.on('error'); the socket is closed after the event.
OnError(r, err) ==
  LET r0 == [r EXCEPT !.conn = "errored"] IN
  IF ~r.done
    THEN SettleRequest([clearTimeout(r0) EXCEPT !.done = TRUE], "rejected", err, "error")
    ELSE r0

(***************************************************************************)
(* request, requestAll and the commands built on them.  outcome is the     *)
(* promise the command returns; while it is pending it holds what the      *)
(* command is waiting for.                                                 *)
(***************************************************************************)
Rejected(cl, err) == [cl EXCEPT !.outcome = [status |-> "rejected", error |-> err]]

Fulfilled(cl, v) == [cl EXCEPT !.outcome = [status |-> "fulfilled", value |-> v]]

Awaiting(cl, kind, sockets) ==
  [cl EXCEPT !.outcome = [status |-> "pending", kind |-> kind, sockets |-> sockets]]

request_AnySocket(cl, msg, filterBrowser) ==
  LET sockets == findSockets(cl.files, Null) IN
  IF Len(sockets) = 0 THEN Rejected(cl, NoBrowsers)
  ELSE Awaiting(requestOne(cl, sockets[1].path, msg), "one", <<sockets[1]>>)

request(cl, msg, filterBrowser) ==
  LET sockets == findSockets(cl.files, filterBrowser) IN
  IF Len(sockets) = 0 THEN Rejected(cl, NoBrowsers)
  ELSE Awaiting(requestOne(cl, sockets[1].path, msg), "one", <<sockets[1]>>)

RECURSIVE requestEach(_, _, _)
requestEach(cl, sockets, msg) ==
  IF sockets = <<>> THEN cl
  ELSE requestEach(requestOne(cl, Head(sockets).path, msg), Tail(sockets), msg)

requestAll_FirstOnly(cl, msg, filterBrowser) ==
  LET sockets == findSockets(cl.files, filterBrowser) IN
  IF Len(sockets) = 0 THEN Rejected(cl, NoBrowsers)
  ELSE Awaiting(requestOne(cl, sockets[1].path, msg), "all", <<sockets[1]>>)

requestAll(cl, msg, filterBrowser) ==
  LET sockets == findSockets(cl.files, filterBrowser) IN
  IF Len(sockets) = 0 THEN Rejected(cl, NoBrowsers)
  ELSE Awaiting(requestEach(cl, sockets, msg), "all", sockets)

getStatus(cl) ==
  LET sockets == findSockets(cl.files, Null) IN
  IF Len(sockets) = 0 THEN Fulfilled(cl, [browsers |-> <<>>])
  ELSE Awaiting(requestEach(cl, sockets, [action |-> "status"]), "status", sockets)

closeTab(cl, id) ==
  LET p == parsePrefixedId(cl.files, id) IN
  IF Threw(p) THEN Rejected(cl, p)
  ELSE request(cl, [action |-> "closeTab", tabId |-> p.tabId], p.browser)

\* String(browser) as the key of groups: null becomes the text "null".
GroupKey(browser) == IF browser = Null THEN <<"n", "u", "l", "l">> ELSE browser

\* groups[browser].push(tabId); Object.entries lists the keys in the order
\* they were first set (no label is an integer index).
RECURSIVE groupByBrowser(_, _)
groupByBrowser(groups, ps) ==
  IF ps = <<>> THEN groups
  ELSE LET key == GroupKey(Head(ps).browser) IN
       IF \E i \in DOMAIN groups : groups[i].browser = key
         THEN LET i == CHOOSE i \in DOMAIN groups : groups[i].browser = key
              IN groupByBrowser([groups EXCEPT ![i].ids = Append(@, Head(ps).tabId)], Tail(ps))
         ELSE groupByBrowser(Append(groups, [browser |-> key, ids |-> <<Head(ps).tabId>>]),
                             Tail(ps))

\* One turn of closeTabs's second loop, or its return.
closeNextGroup(cl, groups, tabIds) ==
  IF groups = <<>>
    THEN Fulfilled(cl, [success |-> TRUE, closed |-> tabIds, count |-> Len(tabIds)])
    ELSE LET r == request(cl, [action |-> "closeTabs", tabIds |-> Head(groups).ids],
                          Head(groups).browser)
         IN IF r.outcome.status = "rejected" THEN r
            ELSE [r EXCEPT !.outcome = [status |-> "pending", kind |-> "groups",
                                        sockets |-> r.outcome.sockets,
                                        groups |-> Tail(groups), ids |-> tabIds]]

closeTabs_Ungrouped(cl, tabIds) ==
  LET ps == [i \in DOMAIN tabIds |-> parsePrefixedId(cl.files, tabIds[i])] IN
  IF \E i \in DOMAIN ps : Threw(ps[i])
    THEN Rejected(cl, ps[CHOOSE i \in DOMAIN ps : Threw(ps[i]) /\ \A j \in 1..(i - 1) : ~Threw(ps[j])])
    ELSE closeNextGroup(cl, IF ps = <<>> THEN <<>>
                            ELSE <<[browser |-> GroupKey(ps[1].browser),
                                    ids |-> [i \in DOMAIN ps |-> ps[i].tabId]]>>, tabIds)

closeTabs(cl, tabIds) ==
  LET ps == [i \in DOMAIN tabIds |-> parsePrefixedId(cl.files, tabIds[i])] IN
  IF \E i \in DOMAIN ps : Threw(ps[i])
    THEN Rejected(cl, ps[CHOOSE i \in DOMAIN ps : Threw(ps[i]) /\ \A j \in 1..(i - 1) : ~Threw(ps[j])])
    ELSE closeNextGroup(cl, groupByBrowser(<<>>, ps), tabIds)

activateTab(cl, id) ==
  LET p == parsePrefixedId(cl.files, id) IN
  IF Threw(p) THEN Rejected(cl, p)
  ELSE request(cl, [action |-> "activateTab", tabId |-> p.tabId], p.browser)

moveTab(cl, id, windowId) ==
  LET p == parsePrefixedId(cl.files, id)
      winId == parseWindowId(windowId)
  IN IF Threw(p) THEN Rejected(cl, p)
     ELSE IF Threw(winId) THEN Rejected(cl, winId)
     ELSE request(cl, [action |-> "moveTab", tabId |-> p.tabId, windowId |-> winId.value],
                  p.browser)

\* What closeTab, activateTab and moveTab return.
Success(cmd) ==
  IF cmd.name = "closeTab" THEN [success |-> TRUE, closed |-> cmd.id]
  ELSE IF cmd.name = "activateTab" THEN [success |-> TRUE, activated |-> cmd.id]
  ELSE [success |-> TRUE, moved |-> cmd.id, windowId |-> cmd.windowId]

\* The part of a command that runs when what it awaits has settled: the
\* then-callbacks and the filter of requestAll, the return of a command.
Resume_AllOrNothing(cl) ==
  IF cl.outcome.status # "pending" THEN cl
  ELSE IF \E i \in DOMAIN cl.requests : cl.requests[i].promise = "pending" THEN cl
  ELSE IF cl.outcome.kind = "all"
    THEN IF \E i \in DOMAIN cl.requests : cl.requests[i].promise = "rejected"
           THEN Rejected(cl, cl.requests[CHOOSE i \in DOMAIN cl.requests :
                                           cl.requests[i].promise = "rejected"].value[1])
           ELSE Fulfilled(cl, [i \in DOMAIN cl.requests |->
                                 [browser |-> cl.outcome.sockets[i].browser,
                                  data |-> cl.requests[i].value[1]]])
  ELSE IF cl.requests[1].promise = "rejected"
    THEN Rejected(cl, cl.requests[1].value[1])
    ELSE Fulfilled(cl, Success(cl.command))

\* The labels getStatus returns: r.value.browser of the fulfilled results.
StatusLabels(cl) ==
  LET ok == SelectSeq([i \in DOMAIN cl.requests |-> i],
                      LAMBDA i : cl.requests[i].promise = "fulfilled")
  IN [j \in DOMAIN ok |-> cl.outcome.sockets[ok[j]].browser]

Resume(cl) ==
  IF cl.outcome.status # "pending" THEN cl
  ELSE IF \E i \in DOMAIN cl.requests : cl.requests[i].promise = "pending" THEN cl
  ELSE IF cl.outcome.kind = "status" THEN Fulfilled(cl, [browsers |-> StatusLabels(cl)])
  ELSE IF cl.outcome.kind = "groups"
    THEN IF cl.requests[Len(cl.requests)].promise = "rejected"
           THEN Rejected(cl, cl.requests[Len(cl.requests)].value[1])
           ELSE closeNextGroup(cl, cl.outcome.groups, cl.outcome.ids)
  ELSE IF cl.outcome.kind = "all"
    THEN LET ok == SelectSeq([i \in DOMAIN cl.requests |-> i],
                             LAMBDA i : cl.requests[i].promise = "fulfilled")
         IN Fulfilled(cl, [j \in DOMAIN ok |->
                             [browser |-> cl.outcome.sockets[ok[j]].browser,
                              data |-> cl.requests[ok[j]].value[1]]])
  ELSE IF cl.requests[1].promise = "rejected"
    THEN Rejected(cl, cl.requests[1].value[1])
    ELSE Fulfilled(cl, Success(cl.command))

(***************************************************************************)
(* The client process: one command, the events of its connections and      *)
(* timers, and the socket files that come and go around it.                *)
(***************************************************************************)
Client == [files |-> files, command |-> command, requests |-> requests,
           outcome |-> outcome, now |-> now]

ClientBecomes(cl) ==
  /\ files' = cl.files
  /\ command' = cl.command
  /\ requests' = cl.requests
  /\ outcome' = cl.outcome
  /\ now' = cl.now

restVars == <<bridgeVars, lastHello, codecVars, idText, parsed, formatVars, hostVars, extVars>>

\* A label the user may name that is not among KNOWN_BROWSERS.
Brave == <<"b", "r", "a", "v", "e">>

Labels == {KNOWN_BROWSERS[i] : i \in DOMAIN KNOWN_BROWSERS} \cup {Brave}

CommandIds == {<<"4", "2">>, Chrome \o <<":", "4", "2">>, <<":", "4", "2">>, <<"x">>}

Commands ==
  {[name |-> "requestAll", msg |-> [action |-> "listTabs"], browser |-> b] : b \in {Null, Chrome}}
    \cup {[name |-> n, id |-> id] : n \in {"closeTab", "activateTab"},
                                       id \in CommandIds \cup {Brave \o <<":", "4", "2">>}}
    \cup {[name |-> "moveTab", id |-> id, windowId |-> w] :
            id \in CommandIds, w \in {<<"w", "7">>, <<"x", "7">>}}

\* command.fs records the socket files that existed when the command ran.
RunCommand(cl, cmd) ==
  LET c == [cl EXCEPT !.command = cmd @@ [fs |-> cl.files]] IN
  IF cmd.name = "requestAll" THEN requestAll(c, cmd.msg, cmd.browser)
  ELSE IF cmd.name = "getStatus" THEN getStatus(c)
  ELSE IF cmd.name = "closeTabs" THEN closeTabs(c, cmd.ids)
  ELSE IF cmd.name = "closeTab" THEN closeTab(c, cmd.id)
  ELSE IF cmd.name = "activateTab" THEN activateTab(c, cmd.id)
  ELSE moveTab(c, cmd.id, cmd.windowId)

ResponseLines ==
  {Stringify(m) \o <<Punct.nl>> : m \in {[data |-> "tabs"], [error |-> "UnknownAction"], EmptyObj}}
    \cup {<<Punct.garbage, Punct.nl>>}

\* A response line may come whole or in pieces.
Chunks == ResponseLines \cup {<<Punct.lb>>, Tail(Stringify([data |-> "tabs"])) \o <<Punct.nl>>}

ConnectErrors == {[code |-> "ENOENT"], [code |-> "ECONNREFUSED"], [code |-> "EACCES"]}

\* A bridge starts (it binds its socket) or goes away.
SocketAppears(b) ==
  /\ socketPath(b) \notin files
  /\ files' = files \cup {socketPath(b)}
  /\ UNCHANGED <<command, requests, outcome, now, restVars>>

SocketDisappears(b) ==
  /\ socketPath(b) \in files
  /\ files' = files \ {socketPath(b)}
  /\ UNCHANGED <<command, requests, outcome, now, restVars>>

Run(cmd) ==
  /\ command = NoCommand
  /\ \E cl \in {Resume(RunCommand(Client, cmd))} : ClientBecomes(cl)
  /\ UNCHANGED restVars

Connect(i) ==
  /\ requests[i].conn = "connecting"
  /\ \E cl \in {Resume([Client EXCEPT !.requests[i] = OnConnect(@)])} : ClientBecomes(cl)
  /\ UNCHANGED restVars

\* Connecting fails, or an established connection breaks.
ConnError(i, err) ==
  /\ \/ requests[i].conn = "connecting" /\ err \in ConnectErrors
     \/ requests[i].conn = "open" /\ err = [code |-> "ECONNRESET"]
  /\ \E cl \in {Resume([Client EXCEPT !.requests[i] = OnError(@, err)])} : ClientBecomes(cl)
  /\ UNCHANGED restVars

Data(i, chunk) ==
  /\ requests[i].conn = "open"
  /\ Len(requests[i].buf) < MaxPartials
  /\ \E cl \in {Resume([Client EXCEPT !.requests[i] = OnData(@, chunk)])} : ClientBecomes(cl)
  /\ UNCHANGED restVars

RequestTimerFire(i) ==
  /\ i \in DOMAIN requests
  /\ requests[i].timer = "armed"
  /\ now >= requests[i].due
  /\ \E cl \in {Resume([Client EXCEPT !.requests[i] = OnRequestTimer(@)])} : ClientBecomes(cl)
  /\ UNCHANGED restVars

\* TickMs milliseconds pass; a timer that is due runs before more time passes.
ClientTick ==
  /\ \E i \in DOMAIN requests : requests[i].timer = "armed"
  /\ \A i \in DOMAIN requests : requests[i].timer = "armed" => now < requests[i].due
  /\ now' = now + TickMs
  /\ UNCHANGED <<files, command, requests, outcome, restVars>>

NextClient ==
  \/ \E b \in Labels : SocketAppears(b)
  \/ \E b \in Labels : SocketDisappears(b)
  \/ \E cmd \in Commands : Run(cmd)
  \/ \E i \in DOMAIN requests : Connect(i)
  \/ \E i \in DOMAIN requests : \E err \in ConnectErrors \cup {[code |-> "ECONNRESET"]} :
       ConnError(i, err)
  \/ \E i \in DOMAIN requests : \E chunk \in Chunks : Data(i, chunk)
  \/ \E i \in DOMAIN requests : RequestTimerFire(i)
  \/ ClientTick

SpecClient == Init /\ [][NextClient]_vars

\* The event loop runs a timer that is due, and time passes.
SpecClientLive ==
  /\ SpecClient
  /\ WF_vars(ClientTick)
  /\ \A i \in 1..Len(KNOWN_BROWSERS) : WF_vars(RequestTimerFire(i))

(***************************************************************************)
(* Helpers of the properties.                                              *)
(***************************************************************************)
Frames(bodies) == Flatten([i \in DOMAIN bodies |-> BrowserFrame(bodies[i])])

Line(obj) == Stringify(obj) \o <<Punct.nl>>

\* A handler's result without the record of what the event decoded.
Quiet(s) == [s EXCEPT !.handled = <<>>, !.skipped = 0]

ForwardedCalls == {k \in DOMAIN calls : calls[k].rid # Undefined}

OpenConns == {c \in Conns : connState[c] = "open"}

ResponseValue(m) == IF "error" \in DOMAIN m THEN m.error ELSE Get(m, "data")

ResponseLine(m) == IF "error" \in DOMAIN m THEN Line([error |-> m.error])
                   ELSE Line(Obj1("data", Get(m, "data")))

(***************************************************************************)
(* C1: every forwarded command is settled at most once, by its response   *)
(* or by its timer and never by both: it waits (in the pending table, its  *)
(* timer armed) exactly until its first settlement, which removes the      *)
(* entry and the timer together; a matching response settles it with the   *)
(* data or the error it carries, the timer with 'Request timed out'.       *)
(***************************************************************************)
C1_SettledOnce ==
  /\ \A k \in ForwardedCalls :
       /\ calls[k].settleCalls <= 1
       /\ (calls[k].rid \in DOMAIN pending) <=> (calls[k].settleCalls = 0)
       /\ (calls[k].rid \in DOMAIN timers) <=> (calls[k].rid \in DOMAIN pending)
       /\ calls[k].rid \in DOMAIN pending => pending[calls[k].rid] = k
       /\ calls[k].settleCalls = 1 =>
            \/ calls[k].by = "response" /\ calls[k].promise \in {"resolved", "rejected"}
            \/ /\ calls[k].by = "timer"
               /\ calls[k].promise = "rejected"
               /\ calls[k].value = "RequestTimedOut"
  /\ \A rid \in DOMAIN pending : \A m \in Responses(rid) :
       LET s == StdinOnData(State, Frames(<<Stringify(m)>>))
           k == pending[rid]
       IN /\ s.calls[k].settleCalls = 1
          /\ s.calls[k].by = "response"
          /\ s.calls[k].promise = (IF "error" \in DOMAIN m THEN "rejected" ELSE "resolved")
          /\ s.calls[k].value = ResponseValue(m)
          /\ rid \notin DOMAIN s.pending
          /\ rid \notin DOMAIN s.timers

C1_Witness ==
  \E k1, k2 \in ForwardedCalls :
    /\ calls[k1].by = "response" /\ calls[k1].settleCalls = 1
    /\ calls[k2].by = "timer" /\ calls[k2].settleCalls = 1

(***************************************************************************)
(* C2: a timer can fire only once REQUEST_TIMEOUT has passed since the     *)
(* command was sent; when it fires the request is rejected with 'Request   *)
(* timed out' (and its client is told so) and its entry leaves the pending *)
(* table; a response carrying the requestId of a timed-out request changes *)
(* nothing: no pending entry, no promise, no line on any connection.       *)
(***************************************************************************)
C2_TimeoutThenLateResponseIsNoOp ==
  /\ \A rid \in DOMAIN timers : timers[rid].remaining = 0 =>
       LET s == OnTimeout(State, rid)
           k == timers[rid].call
       IN /\ timers[rid].elapsed >= REQUEST_TIMEOUT
          /\ calls[k].rid = rid
          /\ s.calls[k].promise = "rejected"
          /\ s.calls[k].value = "RequestTimedOut"
          /\ s.calls[k].by = "timer"
          /\ rid \notin DOMAIN s.pending
          /\ s.connOut = [connOut EXCEPT ![calls[k].conn] = @ \o Line([error |-> "RequestTimedOut"])]
  /\ \A k \in ForwardedCalls : calls[k].by = "timer" =>
       /\ calls[k].rid \notin DOMAIN pending
       /\ \A m \in Responses(calls[k].rid) :
            Quiet(StdinOnData(State, Frames(<<Stringify(m)>>))) = State

C2_Witness ==
  \E k \in ForwardedCalls :
    /\ calls[k].by = "timer"
    /\ calls[k].rid \notin DOMAIN pending
    /\ calls[k].writes = 1
    /\ Responses(calls[k].rid) \subseteq BrowserMessages

(***************************************************************************)
(* C3: every request line with an action other than status is answered     *)
(* with exactly one line, on the connection it came from: at once with     *)
(* {error: 'No browser connected'} when no browser is connected, otherwise *)
(* when its command is settled, with {data} for a response without error,  *)
(* {error} for a response with one and for the timeout; and every such     *)
(* request is eventually answered.                                         *)
(***************************************************************************)
C3_Mirrored ==
  /\ \A k \in DOMAIN calls :
       /\ calls[k].writes <= 1
       /\ calls[k].writes = 1 <=> calls[k].promise # "pending"
       /\ calls[k].promise = "pending" => calls[k].rid \in DOMAIN pending
  /\ \A c \in OpenConns : \A r \in SocketRequests \ {[action |-> "status"]} :
       LET s == ConnOnData(State, c, Line(r))
           k == Len(calls) + 1
       IN /\ Len(s.calls) = k
          /\ IF browserConnected
               THEN s.connOut = connOut /\ s.calls[k].writes = 0
               ELSE /\ s.connOut = [connOut EXCEPT ![c] = @ \o Line([error |-> "NoBrowserConnected"])]
                    /\ s.calls[k].writes = 1
  /\ \A rid \in DOMAIN pending : \A m \in Responses(rid) :
       LET s == StdinOnData(State, Frames(<<Stringify(m)>>))
           k == pending[rid]
       IN /\ s.connOut = [connOut EXCEPT ![calls[k].conn] = @ \o ResponseLine(m)]
          /\ s.calls[k].writes = 1
  /\ \A rid \in DOMAIN timers : timers[rid].remaining = 0 =>
       LET s == OnTimeout(State, rid)
           k == timers[rid].call
       IN /\ s.connOut = [connOut EXCEPT ![calls[k].conn] = @ \o Line([error |-> "RequestTimedOut"])]
          /\ s.calls[k].writes = 1

C3_EveryRequestAnswered ==
  /\ []C3_Mirrored
  /\ \A k \in 1..MaxCalls : (Len(calls) >= k) ~> (Len(calls) >= k /\ calls[k].writes = 1)

C3_Witness ==
  \E k1, k2 \in DOMAIN calls :
    /\ calls[k1].writes = 1 /\ calls[k1].promise = "resolved"
    /\ calls[k2].writes = 1 /\ calls[k2].by = "timer"

(***************************************************************************)
(* C4: while no browser is connected sendToBrowser rejects at once with    *)
(* 'No browser connected' and generates no requestId, registers no pending *)
(* entry, arms no timer and writes nothing to stdout.                      *)
(***************************************************************************)
C4_NotConnectedFailsFast ==
  /\ ~browserConnected =>
       \A c \in Conns : \A r \in SocketRequests :
         LET k == Len(calls) + 1
             s0 == [State EXCEPT !.calls = Append(@, NewCall(c, r))]
             s == SendToBrowser(s0, k, Get(r, "action"), Without(r, "action"))
         IN /\ s.calls[k].promise = "rejected"
            /\ s.calls[k].value = "NoBrowserConnected"
            /\ s.calls[k].settleCalls = 1
            /\ s.calls[k].rid = Undefined
            /\ s.uuids = uuids
            /\ s.pending = pending
            /\ s.timers = timers
            /\ s.stdout = stdout
  /\ \A k \in DOMAIN calls : calls[k].by = "guard" =>
       /\ calls[k].rid = Undefined
       /\ calls[k].promise = "rejected"
       /\ calls[k].value = "NoBrowserConnected"
  /\ ~browserConnected => uuids = 0 /\ pending = EmptyObj /\ timers = EmptyObj /\ stdout = <<>>

C4_Witness ==
  /\ ~browserConnected
  /\ \E k \in DOMAIN calls : calls[k].by = "guard" /\ calls[k].writes = 1
  /\ stdout = <<>>

(***************************************************************************)
(* C5: a status request is answered, on its connection, with               *)
(* {browsers: []} as long as no hello has been processed, and with         *)
(* {browsers: [B]} once the hello has been processed, B being the hello's  *)
(* browser field ('unknown' for a hello that has none).                    *)
(***************************************************************************)
StatusAnswer ==
  IF lastHello = "none" THEN [browsers |-> <<>>]
  ELSE [browsers |-> <<IF lastHello = Undefined THEN "unknown" ELSE lastHello>>]

C5_StatusListsHelloLabel ==
  /\ browserConnected <=> lastHello # "none"
  /\ \A c \in OpenConns :
       LET s == ConnOnData(State, c, Line([action |-> "status"]))
       IN s.connOut = [connOut EXCEPT ![c] = @ \o Line(StatusAnswer)]

C5_Witness ==
  /\ lastHello = "chrome"
  /\ \E c \in OpenConns :
       connOut[c] = Line([browsers |-> <<>>]) \o Line([browsers |-> <<"chrome">>])

(***************************************************************************)
(* C6: handling a status request writes nothing to stdout and leaves the   *)
(* pending table as it is; every other request handled while a browser is  *)
(* connected writes exactly one frame to stdout, and that frame is a       *)
(* command carrying the request's action and params.                       *)
(***************************************************************************)
FrameText(frame) == Utf8Decode(Drop(frame, 4))

CarriesRequest(frame, r) ==
  /\ Len(frame) >= 4
  /\ ReadUInt32LE(frame) = Len(frame) - 4
  /\ JsonValid(FrameText(frame))
  /\ LET cmd == JsonParse(FrameText(frame))
     IN /\ Get(cmd, "type") = "command"
        /\ \A key \in DOMAIN r : Get(cmd, key) = r[key]

StatusStaysLocal(c) ==
  LET s == ConnOnData(State, c, Line([action |-> "status"]))
  IN s.stdout = stdout /\ s.pending = pending /\ s.timers = timers /\ s.calls = calls

EmitsOneFrame(c, r) ==
  LET s == ConnOnData(State, c, Line(r))
  IN /\ Len(s.stdout) = Len(stdout) + 1
     /\ SubSeq(s.stdout, 1, Len(stdout)) = stdout
     /\ DOMAIN s.pending = DOMAIN pending \cup {UUIDs[uuids + 1]}

\* The frame written for forwarded call k: calls are forwarded in order.
FrameOfCall(k) == stdout[Cardinality({i \in ForwardedCalls : i <= k})]

C6_OnlyStatusStaysLocal ==
  /\ \A c \in OpenConns :
       /\ StatusStaysLocal(c)
       /\ browserConnected =>
            \A r \in SocketRequests \ {[action |-> "status"]} : EmitsOneFrame(c, r)
  /\ Len(stdout) = Cardinality(ForwardedCalls)
  /\ \A k \in ForwardedCalls : CarriesRequest(FrameOfCall(k), calls[k].msg)

\* What does hold: one frame per forwarded request, which carries the
\* request when the request's JSON text is ASCII.
C6_Ascii ==
  /\ \A c \in OpenConns :
       /\ StatusStaysLocal(c)
       /\ browserConnected =>
            \A r \in SocketRequests \ {[action |-> "status"]} : EmitsOneFrame(c, r)
  /\ Len(stdout) = Cardinality(ForwardedCalls)
  /\ \A k \in ForwardedCalls :
       calls[k].msg = [action |-> "listTabs"] => CarriesRequest(FrameOfCall(k), calls[k].msg)

C6_Witness ==
  /\ browserConnected
  /\ \E k \in ForwardedCalls : calls[k].msg = [action |-> "openTab", url |-> "u_e9"]
  /\ Len(stdout) = 1
  /\ \E c \in OpenConns : connOut[c] # <<>>

(***************************************************************************)
(* C7: a complete line that is not valid JSON is answered with             *)
(* {error: 'Invalid JSON'} on its connection and has no other effect:      *)
(* nothing is forwarded, the connection stays open, and the lines after    *)
(* it, in the same chunk or in a later one, are handled as they would be   *)
(* had the bad line only produced its error line.                          *)
(***************************************************************************)
AfterInvalidLine(c) ==
  [State EXCEPT !.connOut[c] = @ \o Line([error |-> "InvalidJSON"])]

RECURSIVE SumLen(_)
SumLen(frames) == IF frames = <<>> THEN 0 ELSE Len(Head(frames)) + SumLen(Tail(frames))

FedBytes == SumLen(stdout) - Len(wire)

\* The number of frames of stdout that lie entirely within the first n bytes.
RECURSIVE WholeFrames(_, _)
WholeFrames(frames, n) ==
  IF frames = <<>> \/ Len(Head(frames)) > n THEN 0
  ELSE 1 + WholeFrames(Tail(frames), n - Len(Head(frames)))

C8_RoundTrip ==
  LET n == WholeFrames(stdout, FedBytes)
  IN /\ delivered = SubSeq(sent, 1, n)
     /\ Len(stdinBuf) = FedBytes - SumLen(SubSeq(stdout, 1, n))
     /\ wire = <<>> => delivered = sent /\ stdinBuf = <<>>

\* What does hold: the round trip of the messages whose JSON text is ASCII;
\* the others are dropped by the decoder.
IsAscii(msg) == \A i \in 1..Len(Stringify(msg)) : Stringify(msg)[i] < 128

RECURSIVE AsciiOnly(_)
AsciiOnly(msgs) ==
  IF msgs = <<>> THEN <<>>
  ELSE (IF IsAscii(Head(msgs)) THEN <<Head(msgs)>> ELSE <<>>) \o AsciiOnly(Tail(msgs))

C8_Ascii ==
  LET n == WholeFrames(stdout, FedBytes)
  IN /\ delivered = AsciiOnly(SubSeq(sent, 1, n))
     /\ Len(stdinBuf) = FedBytes - SumLen(SubSeq(stdout, 1, n))

C8_Witness ==
  /\ Len(sent) = 2
  /\ delivered = <<sent[1]>>
  /\ stdinBuf # <<>>
  /\ wire # <<>>

(***************************************************************************)
(* C9: the buffer writeNativeMessage writes for a message is the 4-byte    *)
(* little-endian byte length of the message's UTF-8 JSON text followed by  *)
(* exactly those bytes, also when a character takes more than one byte.    *)
(***************************************************************************)
C9_LengthIsByteLength ==
  /\ Len(stdout) = Len(sent)
  /\ \A i \in DOMAIN sent :
       stdout[i] = WriteUInt32LE(Len(Utf8Encode(Stringify(sent[i]))))
                     \o Utf8Encode(Stringify(sent[i]))

C9_Ascii ==
  /\ Len(stdout) = Len(sent)
  /\ \A i \in DOMAIN sent : IsAscii(sent[i]) =>
       stdout[i] = WriteUInt32LE(Len(Utf8Encode(Stringify(sent[i]))))
                     \o Utf8Encode(Stringify(sent[i]))

C9_Witness ==
  \E i \in DOMAIN sent : ~IsAscii(sent[i]) /\ Len(stdout[i]) = 4 + Len(Stringify(sent[i]))

(***************************************************************************)
(* C10: a complete frame whose body is not valid JSON is consumed and      *)
(* dropped: the handler is not called for it and the bridge's state is     *)
(* what it would be without the frame, so the frames before and after it,  *)
(* in the same chunk or in the next, are handled as if it were not there.  *)
(***************************************************************************)
OneOrNone(S) == {<<>>} \cup {<<x>> : x \in S}

SameButSkipped(s1, s2) == [s1 EXCEPT !.skipped = 0] = [s2 EXCEPT !.skipped = 0]

C10_CorruptFrameSkipped ==
  /\ LET s == StdinOnData(State, Frames(<<<<Punct.garbage>>>>))
     IN s.skipped = 1 /\ s.handled = <<>> /\ s.stdinBuf = <<>> /\ Quiet(s) = State
  /\ \A before, after \in OneOrNone(FrameBodies) :
       LET with == StdinOnData(State, Frames(before \o <<<<Punct.garbage>>>> \o after))
           without == StdinOnData(State, Frames(before \o after))
           later == StdinOnData(Quiet(StdinOnData(State, Frames(before \o <<<<Punct.garbage>>>>))),
                                Frames(after))
       IN /\ with.skipped = without.skipped + 1
          /\ SameButSkipped(with, without)
          /\ with.stdinBuf = <<>>
          /\ Quiet(later) = Quiet(without)

C10_Witness ==
  \E rid \in DOMAIN pending :
    LET s == StdinOnData(State, Frames(<<<<Punct.garbage>>,
                                         Stringify([requestId |-> rid, data |-> "tabs"])>>))
    IN /\ s.skipped = 1
       /\ Len(s.handled) = 1
       /\ rid \notin DOMAIN s.pending
       /\ s.calls[pending[rid]].promise = "resolved"

(***************************************************************************)
(* What a well-formed identifier is.                                       *)
(***************************************************************************)
AllDigits(str) == str # <<>> /\ \A i \in DOMAIN str : str[i] \in Digits

Unsigned(str) == IF str # <<>> /\ Head(str) \in {"-", "+"} THEN Tail(str) ELSE str

\* A base-10 integer and nothing else (white space before it is let pass,
\* as every JavaScript conversion does).
WholeInteger(str) == AllDigits(Unsigned(SkipSpace(str)))

IntegerOf(str) ==
  LET t == SkipSpace(str)
  IN IF t # <<>> /\ Head(t) = "-" THEN 0 - Decimal(Tail(t)) ELSE Decimal(Unsigned(t))

NumericPart(id) ==
  IF IndexOf(id, ":") = -1 THEN id ELSE SubSeq(id, IndexOf(id, ":") + 2, Len(id))

(***************************************************************************)
(* C11: requestAll over the endpoints it discovered returns, once they     *)
(* have all settled, exactly the results of the endpoints that succeeded,  *)
(* in order, each tagged with the label of its endpoint; endpoints that    *)
(* fail or time out are left out and never make it raise; it raises ('No   *)
(* browsers connected') exactly when discovery yields no endpoint.         *)
(***************************************************************************)
Succeeded == {i \in DOMAIN requests : requests[i].promise = "fulfilled"}

\* The labels requestAll has to try, of which those in fs are discovered.
Candidates(filterBrowser) ==
  IF filterBrowser = Null THEN {Firefox, Chrome} ELSE {filterBrowser}

DiscoveredIn(fs, filterBrowser) == {b \in Candidates(filterBrowser) : socketPath(b) \in fs}

C11_PartialFailureTolerated ==
  command.name = "requestAll" =>
    /\ Len(requests) = Cardinality(DiscoveredIn(command.fs, command.browser))
    /\ outcome.status = "rejected" <=> DiscoveredIn(command.fs, command.browser) = {}
    /\ outcome.status = "rejected" => outcome.error = NoBrowsers
    /\ outcome.status = "fulfilled" =>
         /\ Len(outcome.value) = Cardinality(Succeeded)
         /\ \A i \in Succeeded : \E j \in DOMAIN outcome.value :
              /\ socketPath(outcome.value[j].browser) = requests[i].path
              /\ outcome.value[j].data = requests[i].value[1]
         /\ \A j, k \in DOMAIN outcome.value : j < k =>
              \E i1, i2 \in Succeeded :
                /\ i1 < i2
                /\ socketPath(outcome.value[j].browser) = requests[i1].path
                /\ socketPath(outcome.value[k].browser) = requests[i2].path

C11_Witness ==
  /\ command.name = "requestAll"
  /\ Len(requests) = 2
  /\ requests[1].promise = "rejected"
  /\ requests[2].promise = "fulfilled"
  /\ requests[1].by = "timer"
  /\ outcome.status = "fulfilled"
  /\ Len(outcome.value) = 1
  /\ outcome.value[1].browser = Chrome

(***************************************************************************)
(* C12: requestAll starts the request to every discovered endpoint, each   *)
(* with its own timer, before it waits for any of them: an endpoint that   *)
(* never answers holds up no other endpoint's request, and requestAll is   *)
(* done as soon as the last endpoint has settled, which is within one      *)
(* TIMEOUT of its start whatever the number of endpoints.                  *)
(***************************************************************************)
RequestAllCommands == {cmd \in Commands : cmd.name = "requestAll"}

C12_FanOutIsConcurrent ==
  /\ command = NoCommand =>
       \A cmd \in RequestAllCommands :
         LET cl == RunCommand(Client, cmd) IN
         /\ Len(cl.requests) = Cardinality(DiscoveredIn(files, cmd.browser))
         /\ \A i \in DOMAIN cl.requests :
              /\ socketPath(findSockets(files, cmd.browser)[i].browser) = cl.requests[i].path
              /\ cl.requests[i].conn = "connecting"
              /\ cl.requests[i].timer = "armed"
              /\ cl.requests[i].due = now + TIMEOUT
  /\ command.name = "requestAll" =>
       /\ Len(requests) = Cardinality(DiscoveredIn(command.fs, command.browser))
       /\ \A i \in DOMAIN requests :
            /\ requests[i].due = TIMEOUT
            /\ requests[i].conn = "connecting" => OnConnect(requests[i]).written = <<command.msg>>
       /\ outcome.status = "pending" <=> \E i \in DOMAIN requests : requests[i].promise = "pending"
       /\ outcome.status = "pending" => now < TIMEOUT + TickMs

C12_Witness ==
  /\ command.name = "requestAll"
  /\ Len(requests) = 2
  /\ requests[1].conn = "open" /\ requests[1].buf = <<>> /\ requests[1].promise = "pending"
  /\ requests[2].written = <<command.msg>> /\ requests[2].by = "data"
  /\ now < TIMEOUT
  /\ outcome.status = "pending"

(***************************************************************************)
(* C13: every requestOne call eventually settles, and settles once, by the *)
(* first of: a complete response line (resolved with its data, or rejected *)
(* with the error it carries), an error of the connection (rejected with   *)
(* it), the client's own timer (rejected with 'Request timed out' once     *)
(* TIMEOUT has passed); the timer needs nothing from the bridge, so a      *)
(* bridge that accepts the connection and stays silent leads to a timeout. *)
(***************************************************************************)
FirstLine(buf) == SubSeq(buf, 1, IndexOf(buf, Punct.nl))

C13_SettledByFirstEvent ==
  \A i \in DOMAIN requests :
    LET r == requests[i] IN
    /\ r.settleCalls <= 1
    /\ r.promise = "pending" <=> r.settleCalls = 0
    /\ r.promise = "pending" <=> r.by = "none"
    /\ r.promise = "pending" => r.timer = "armed" /\ ~r.done /\ r.conn \in {"connecting", "open"}
    /\ r.promise # "pending" => r.timer # "armed" /\ r.done /\ r.conn \in {"destroyed", "errored"}
    /\ r.by = "timer" =>
         r.promise = "rejected" /\ r.value = <<Error("Request timed out")>> /\ now >= TIMEOUT
    /\ r.by = "error" => r.promise = "rejected" /\ "code" \in DOMAIN r.value[1]
    /\ r.by = "data" =>
         /\ IndexOf(r.buf, Punct.nl) # -1
         /\ LET line == FirstLine(r.buf) IN
            IF line = Stringify([data |-> "tabs"])
              THEN r.promise = "fulfilled" /\ r.value = <<DataValue("tabs")>>
            ELSE IF line = Stringify([error |-> "UnknownAction"])
              THEN r.promise = "rejected" /\ r.value = <<Error("UnknownAction")>>
            ELSE IF line = Stringify(EmptyObj) THEN r.promise = "fulfilled" /\ r.value = <<EmptyObj>>
            ELSE r.promise = "rejected" /\ r.value = <<Error("Invalid response from native host")>>
    /\ r.promise = "pending" =>
         /\ \A err \in ConnectErrors \cup {[code |-> "ECONNRESET"]} :
              OnError(r, err).promise = "rejected" /\ OnError(r, err).value = <<err>>
         /\ OnRequestTimer(r).promise = "rejected"
         /\ OnRequestTimer(r).value = <<Error("Request timed out")>>
         /\ \A line \in ResponseLines : OnData(r, Tail(line)).promise # "pending"
         /\ OnData(r, <<Punct.lb>>).promise = "pending"

RequestSettled(i) == IF Len(requests) >= i THEN requests[i].promise # "pending" ELSE FALSE

C13_EveryRequestSettles ==
  /\ []C13_SettledByFirstEvent
  /\ \A i \in 1..Len(KNOWN_BROWSERS) :
       (Len(requests) >= i) ~> RequestSettled(i)

C13_Witness ==
  \E i \in DOMAIN requests :
    /\ requests[i].written # <<>>
    /\ requests[i].buf = <<>>
    /\ requests[i].by = "timer"
    /\ requests[i].conn = "destroyed"
    /\ outcome.status # "pending"

(***************************************************************************)
(* C14: when connecting fails because the address is absent or refuses     *)
(* (ENOENT, ECONNREFUSED) the client rejects with a message for the user   *)
(* saying the bridge is not running, not with the raw error; every other   *)
(* error of the connection is passed on unchanged.                         *)
(***************************************************************************)
NotRunningCodes == {"ENOENT", "ECONNREFUSED"}

C14_RefusedMeansNotRunning ==
  \A i \in DOMAIN requests : requests[i].by = "error" =>
    LET err == requests[i].value[1]
    IN IF "code" \in DOMAIN err THEN err.code \notin NotRunningCodes
       ELSE "message" \in DOMAIN err

\* The earlier client does translate the two codes; cli.js passes every
\* error on as it is.
C14_OnlyOldClientTranslates ==
  \A i \in DOMAIN requests : requests[i].promise = "pending" =>
    \A err \in ConnectErrors \cup {[code |-> "ECONNRESET"]} :
      /\ OnError(requests[i], err).value = <<err>>
      /\ OnErrorOld(requests[i], err).value =
           <<IF err.code \in NotRunningCodes THEN Error("Cannot connect to native host") ELSE err>>

C14_Witness ==
  /\ command.name = "closeTab"
  /\ Len(requests) = 1
  /\ requests[1].by = "error"
  /\ requests[1].value = <<[code |-> "ECONNREFUSED"]>>
  /\ outcome.status = "rejected"
  /\ outcome.error = [code |-> "ECONNREFUSED"]

(***************************************************************************)
(* C15: closeTab, activateTab and moveTab given an id without a label send *)
(* their command to a bridge only when exactly one bridge is discovered,   *)
(* and then to that one; with two or more bridges the label is mandatory   *)
(* and the command goes to no bridge.                                      *)
(***************************************************************************)
SingleTarget == {"closeTab", "activateTab", "moveTab"}

\* The arguments pass validation.
ValidArguments ==
  /\ WholeInteger(NumericPart(command.id))
  /\ command.name = "moveTab" => ~Threw(parseWindowId(command.windowId))

C15_UnlabelledNeedsSoleBridge ==
  command.name \in SingleTarget /\ IndexOf(command.id, ":") = -1 =>
    LET discovered == DiscoveredIn(command.fs, Null) IN
    IF ValidArguments /\ Cardinality(discovered) = 1
      THEN /\ Len(requests) = 1
           /\ \E b \in discovered : requests[1].path = socketPath(b)
           /\ requests[1].msg.action = command.name
           /\ requests[1].msg.tabId = IntegerOf(command.id)
      ELSE requests = <<>>

\* What the code does with two bridges: the first socket gets the command.
C15_FirstSocketTaken ==
  command.name \in SingleTarget /\ IndexOf(command.id, ":") = -1 =>
    LET discovered == DiscoveredIn(command.fs, Null) IN
    IF ValidArguments /\ discovered # {}
      THEN /\ Len(requests) = 1
           /\ requests[1].path = socketPath(IF Firefox \in discovered THEN Firefox ELSE Chrome)
      ELSE requests = <<>>

C15_Witness ==
  /\ command.name = "closeTab"
  /\ command.id = <<"4", "2">>
  /\ {socketPath(Firefox), socketPath(Chrome)} \subseteq command.fs
  /\ Len(requests) = 1
  /\ requests[1].path = socketPath(Firefox)
  /\ requests[1].written = <<[action |-> "closeTab", tabId |-> 42]>>

(***************************************************************************)
(* C16: closeTab, activateTab and moveTab given an id 'L:n' send their     *)
(* command to one bridge, the one at L's address, with tabId n; when L's   *)
(* address does not exist the call fails with 'No browsers connected' and  *)
(* nothing is sent to any bridge, whatever other bridges are discovered.   *)
(***************************************************************************)
LabelOf(id) == SubSeq(id, 1, IndexOf(id, ":"))

C16_LabelledGoesToItsBridge ==
  command.name \in SingleTarget /\ IndexOf(command.id, ":") > 0 /\ ValidArguments =>
    IF socketPath(LabelOf(command.id)) \in command.fs
      THEN /\ Len(requests) = 1
           /\ requests[1].path = socketPath(LabelOf(command.id))
           /\ requests[1].msg.action = command.name
           /\ requests[1].msg.tabId = IntegerOf(NumericPart(command.id))
           /\ requests[1].written \in {<<>>, <<requests[1].msg>>}
      ELSE /\ requests = <<>>
           /\ outcome.status = "rejected"
           /\ outcome.error = NoBrowsers

\* An id with an empty label (':42') is treated as one without a label.
C16_EmptyLabel ==
  command.name \in SingleTarget /\ IndexOf(command.id, ":") = 0 /\ ValidArguments =>
    LET discovered == DiscoveredIn(command.fs, Null) IN
    IF discovered # {}
      THEN /\ Len(requests) = 1
           /\ requests[1].path = socketPath(IF Firefox \in discovered THEN Firefox ELSE Chrome)
      ELSE requests = <<>>

C16_Witness ==
  /\ command.name = "moveTab"
  /\ command.id = Chrome \o <<":", "4", "2">>
  /\ {socketPath(Firefox), socketPath(Chrome)} \subseteq command.fs
  /\ Len(requests) = 1
  /\ requests[1].path = socketPath(Chrome)
  /\ requests[1].written = <<[action |-> "moveTab", tabId |-> 42, windowId |-> 7]>>
  /\ outcome.status = "fulfilled"

(***************************************************************************)
(* C17: findSockets returns exactly the candidates (KNOWN_BROWSERS, or the *)
(* filter label alone when one is given) whose socket path, computed from  *)
(* the label, exists when it is called, in candidate order; it keeps       *)
(* nothing between calls, so what a command discovers is what exists when  *)
(* it runs, however the socket files have come and gone before.            *)
(***************************************************************************)
Filters == {Null} \cup Labels \cup {<<"x">>}

C17_DiscoversWhatExists ==
  /\ \A filterBrowser \in Filters :
       LET found == findSockets(files, filterBrowser)
           candidates == IF filterBrowser = Null THEN KNOWN_BROWSERS ELSE <<filterBrowser>>
       IN /\ \A j \in DOMAIN found :
               found[j].path \in files /\ found[j].path = socketPath(found[j].browser)
          /\ {found[j].browser : j \in DOMAIN found}
               = {candidates[i] : i \in {k \in DOMAIN candidates : socketPath(candidates[k]) \in files}}
          /\ \A j, k \in DOMAIN found : j < k =>
               \E a, b \in DOMAIN candidates :
                 a < b /\ candidates[a] = found[j].browser /\ candidates[b] = found[k].browser
  /\ command.name = "requestAll" =>
       /\ {requests[i].path : i \in DOMAIN requests}
            = {socketPath(b) : b \in DiscoveredIn(command.fs, command.browser)}
       /\ Len(requests) = Cardinality(DiscoveredIn(command.fs, command.browser))

C17_Witness ==
  /\ command.name = "requestAll"
  /\ command.browser = Null
  /\ command.fs = {socketPath(Chrome), socketPath(Brave)}
  /\ Len(requests) = 1
  /\ requests[1].path = socketPath(Chrome)
  /\ files = {socketPath(Firefox)}
  /\ findSockets(files, Null) = <<[browser |-> Firefox, path |-> socketPath(Firefox)]>>

(***************************************************************************)
(* C18: parsePrefixedId never silently truncates: when the numeric part of *)
(* the text (what follows the first colon, or the whole text without one)  *)
(* is in its entirety a base-10 integer that integer is returned, and      *)
(* otherwise the call fails; '42x' is rejected, not read as 42.            *)
(***************************************************************************)
C18_NeverTruncates ==
  parsed.fn = "parsePrefixedId" =>
    IF WholeInteger(NumericPart(idText))
      THEN ~Threw(parsed.result) /\ parsed.result.tabId = IntegerOf(NumericPart(idText))
      ELSE Threw(parsed.result)

\* What the code does: the digits up to the first other character are the
\* number, and only a text without leading digits is rejected.
C18_LeadingDigits ==
  parsed.fn = "parsePrefixedId" =>
    LET ds == DigitPrefix(Unsigned(SkipSpace(NumericPart(idText))))
    IN IF ds = <<>> THEN Threw(parsed.result)
       ELSE ~Threw(parsed.result) /\ parsed.result.tabId \in {Decimal(ds), 0 - Decimal(ds)}

C18_Witness ==
  /\ parsed.fn = "parsePrefixedId"
  /\ idText = Chrome \o <<":", "4", "2", "x">>
  /\ parsed.result = [browser |-> Chrome, tabId |-> 42]

(***************************************************************************)
(* C19: parsePrefixedId splits on the first colon: with a colon the text   *)
(* before it is the label and the text after it must be a base-10 integer, *)
(* else the call fails with 'Invalid tab ID'; without a colon the result   *)
(* is (null, integer).                                                     *)
(***************************************************************************)
C19_SplitsOnFirstColon ==
  parsed.fn = "parsePrefixedId" =>
    LET colonIdx == IndexOf(idText, ":")
        label == IF colonIdx = -1 THEN Null ELSE SubSeq(idText, 1, colonIdx)
    IN IF WholeInteger(NumericPart(idText))
         THEN parsed.result = [browser |-> label, tabId |-> IntegerOf(NumericPart(idText))]
         ELSE parsed.result = Throw("Invalid tab ID", idText)

\* The examples of the claim.
C19_Examples ==
  parsed.fn = "parsePrefixedId" =>
    /\ idText = Chrome \o <<":", "4", "2">> => parsed.result = [browser |-> Chrome, tabId |-> 42]
    /\ idText = Chrome \o <<":", "x", "x">> => parsed.result = Throw("Invalid tab ID", idText)
    /\ idText = <<"4", "2">> /\ files = {} => parsed.result = [browser |-> Null, tabId |-> 42]

C19_Witness ==
  /\ parsed.fn = "parsePrefixedId"
  /\ idText = <<"4", "2">>
  /\ files = {socketPath(Chrome)}
  /\ parsed.result = [browser |-> Chrome, tabId |-> 42]

(***************************************************************************)
(* C20: parseWindowId accepts exactly two shapes, a bare non-negative      *)
(* decimal integer and such an integer after the single letter 'w', and    *)
(* returns the integer; every other text fails with 'Invalid window ID'.   *)
(***************************************************************************)
C20_WindowIdShapes ==
  parsed.fn = "parseWindowId" =>
    IF AllDigits(idText) THEN parsed.result = [value |-> Decimal(idText)]
    ELSE IF idText # <<>> /\ Head(idText) = "w" /\ AllDigits(Tail(idText))
      THEN parsed.result = [value |-> Decimal(Tail(idText))]
    ELSE parsed.result = Throw("Invalid window ID", idText)

C20_Witness ==
  /\ parsed.fn = "parseWindowId"
  /\ idText = <<"w", "4", "2">>
  /\ parsed.result = [value |-> 42]

(***************************************************************************)
(* The client's formatters.  Texts are sequences of one-character strings. *)
(***************************************************************************)
DigitChar == <<"0", "1", "2", "3", "4", "5", "6", "7", "8", "9">>

RECURSIVE DecimalDigits(_)
DecimalDigits(n) ==
  IF n < 10 THEN <<DigitChar[n + 1]>> ELSE DecimalDigits(n \div 10) \o <<DigitChar[(n % 10) + 1]>>

\* A number inside a template literal.
NumberToString(n) == IF n < 0 THEN <<"-">> \o DecimalDigits(0 - n) ELSE DecimalDigits(n)

\* Math.floor(a / b) for b > 0.
Floor(a, b) == a \div b

\* a % b of JavaScript: the remainder has the sign of the dividend.
Remainder(a, b) == IF a >= 0 THEN a % b ELSE 0 - ((0 - a) % b)

formatAge_TotalHours(ms) ==
  LET seconds == Floor(ms, 1000)
      minutes == Floor(seconds, 60)
      hours == Floor(minutes, 60)
      days == Floor(hours, 24)
  IN IF days > 0
       THEN NumberToString(days) \o <<"d", " ">> \o NumberToString(hours) \o <<"h">>
     ELSE IF hours > 0
       THEN NumberToString(hours) \o <<"h", " ">> \o NumberToString(Remainder(minutes, 60)) \o <<"m">>
     ELSE NumberToString(minutes) \o <<"m">>

formatAge(ms) ==
  LET seconds == Floor(ms, 1000)
      minutes == Floor(seconds, 60)
      hours == Floor(minutes, 60)
      days == Floor(hours, 24)
  IN IF days > 0
       THEN NumberToString(days) \o <<"d", " ">> \o NumberToString(Remainder(hours, 24)) \o <<"h">>
     ELSE IF hours > 0
       THEN NumberToString(hours) \o <<"h", " ">> \o NumberToString(Remainder(minutes, 60)) \o <<"m">>
     ELSE NumberToString(minutes) \o <<"m">>

Milliseconds(d, h, m, s, f) == (((d * 24 + h) * 60 + m) * 60 + s) * 1000 + f

\* The durations formatAge is given: around each unit's boundary, and the
\* negative ones a clock set back produces.
Durations ==
  LET positive == {Milliseconds(d, h, m, s, f) :
                     d \in 0..MaxDays, h \in {0, 1, 2, 23}, m \in {0, 1, 5, 15, 59},
                     s \in {0, 59}, f \in {0, 999}}
  IN positive \cup {0 - Milliseconds(0, h, m, s, f) :
                      h \in {0, 1}, m \in {0, 1}, s \in {0, 1}, f \in {0, 1}}

Formatted(fn, arg, result) ==
  /\ formatted = NotFormatted
  /\ formatted' = [fn |-> fn, arg |-> arg, result |-> result]
  /\ UNCHANGED <<bridgeVars, lastHello, codecVars, clientVars, hostVars, extVars>>

CallFormatAge == \E ms \in Durations : Formatted("formatAge", ms, formatAge(ms))

(***************************************************************************)
(* JavaScript values as the formatter sees them: a raw tab's fields may be *)
(* absent (undefined), null, texts, numbers or booleans.                   *)
(***************************************************************************)
JsUndefined == [t |-> "undefined", s |-> <<>>, n |-> 0, b |-> FALSE]

JsNull == [t |-> "null", s |-> <<>>, n |-> 0, b |-> FALSE]

JsString(s) == [t |-> "string", s |-> s, n |-> 0, b |-> FALSE]

JsNumber(n) == [t |-> "number", s |-> <<>>, n |-> n, b |-> FALSE]

JsBoolean(b) == [t |-> "boolean", s |-> <<>>, n |-> 0, b |-> b]

JsTruthy(v) ==
  CASE v.t = "string" -> v.s # <<>>
    [] v.t = "number" -> v.n # 0
    [] v.t = "boolean" -> v.b
    [] OTHER -> FALSE

\* v || d
JsOr(v, d) == IF JsTruthy(v) THEN v ELSE d

\* String(v), also what a template literal makes of v.
ToText(v) ==
  CASE v.t = "string" -> v.s
    [] v.t = "number" -> NumberToString(v.n)
    [] v.t = "boolean" -> IF v.b THEN <<"t", "r", "u", "e">> ELSE <<"f", "a", "l", "s", "e">>
    [] v.t = "null" -> <<"n", "u", "l", "l">>
    [] OTHER -> <<"u", "n", "d", "e", "f", "i", "n", "e", "d">>

(***************************************************************************)
(* new URL(x).hostname, for absolute URLs without credentials whose host   *)
(* is lower-case ASCII: the scheme runs to the first colon; http, https    *)
(* and file take an authority after any slashes, other schemes only after  *)
(* "//"; the hostname is the authority without its port.  hostname is the  *)
(* empty text for a URL that has no host.  new URL throws on a text        *)
(* without a scheme and on an http(s) URL without a host.                  *)
(***************************************************************************)
SchemeStart ==
  {"a", "b", "c", "d", "e", "f", "g", "h", "i", "j", "k", "l", "m", "n", "o", "p", "q", "r",
   "s", "t", "u", "v", "w", "x", "y", "z"}

SchemeChars == SchemeStart \cup Digits \cup {"+", "-", "."}

RECURSIVE SkipSlashes(_)
SkipSlashes(str) == IF str # <<>> /\ Head(str) = "/" THEN SkipSlashes(Tail(str)) ELSE str

RECURSIVE UpTo(_, _)
UpTo(str, stops) ==
  IF str = <<>> \/ Head(str) \in stops THEN <<>> ELSE <<Head(str)>> \o UpTo(Tail(str), stops)

URLHostname(x) ==
  LET href == ToText(x)
      colon == IndexOf(href, ":")
      scheme == SubSeq(href, 1, colon + 1)
      rest == Drop(href, colon + 1)
      special == scheme \in {<<"h", "t", "t", "p", ":">>, <<"h", "t", "t", "p", "s", ":">>}
      slashes == Len(rest) >= 2 /\ rest[1] = "/" /\ rest[2] = "/"
      authority ==
        IF special \/ scheme = <<"f", "i", "l", "e", ":">> THEN UpTo(SkipSlashes(rest), {"/", "?", "#"})
        ELSE IF slashes THEN UpTo(Drop(rest, 2), {"/", "?", "#"})
        ELSE <<>>
      hostname == UpTo(authority, {":"})
  IN IF colon < 1 \/ href[1] \notin SchemeStart \/ \E i \in 1..colon : href[i] \notin SchemeChars
       THEN [threw |-> TRUE, hostname |-> <<>>]
     ELSE IF special /\ hostname = <<>>
       THEN [threw |-> TRUE, hostname |-> <<>>]
     ELSE [threw |-> FALSE, hostname |-> hostname]

(***************************************************************************)
(* new Date(ms).toISOString() for the time values the model uses, which    *)
(* all lie in January 1970.                                                *)
(***************************************************************************)
Pad(n, width) ==
  LET ds == DecimalDigits(n) IN [i \in 1..(width - Len(ds)) |-> "0"] \o ds

toISOString(ms) ==
  LET days == Floor(ms, 86400000)
      inDay == ms % 86400000
  IN <<"1", "9", "7", "0", "-", "0", "1", "-">> \o Pad(days + 1, 2) \o <<"T">> \o Pad(Floor(inDay, 3600000), 2) \o <<":">>
       \o Pad(Floor(inDay, 60000) % 60, 2) \o <<":">> \o Pad(Floor(inDay, 1000) % 60, 2)
       \o <<".">> \o Pad(inDay % 1000, 3) \o <<"Z">>

\* t.x ? new Date(t.x).toISOString() : null
IsoOrNull(v) == IF JsTruthy(v) THEN JsString(toISOString(v.n)) ELSE JsNull

NoTracking ==
  [given |-> FALSE, createdAt |-> JsUndefined, lastActivated |-> JsUndefined,
   lastUpdated |-> JsUndefined, activationCount |-> JsUndefined,
   navigationCount |-> JsUndefined]

\* A field the result does not have is JsUndefined here.  dateNow is what
\* Date.now() returns.
formatTab_DomainUnguarded(tab, browser, dateNow) ==
  LET url == URLHostname(tab.url)
      prefix == IF JsTruthy(browser) THEN ToText(browser) \o <<":">> ELSE <<>>
      t == tab.tracking
  IN IF url.threw THEN [threw |-> TRUE]
     ELSE
     [threw |-> FALSE,
      id |-> JsString(prefix \o ToText(tab.id)),
      browser |-> JsOr(browser, JsNull),
      windowId |-> JsString(<<"w">> \o ToText(tab.windowId)),
      index |-> tab.index,
      title |-> JsOr(tab.title, JsString(<<>>)),
      url |-> JsOr(tab.url, JsString(<<>>)),
      domain |-> JsString(url.hostname),
      active |-> JsOr(tab.active, JsBoolean(FALSE)),
      pinned |-> JsOr(tab.pinned, JsBoolean(FALSE)),
      audible |-> JsOr(tab.audible, JsBoolean(FALSE)),
      discarded |-> JsOr(tab.discarded, JsBoolean(FALSE)),
      status |-> JsOr(tab.status, JsString(<<"u", "n", "k", "n", "o", "w", "n">>)),
      openerTabId |-> IF tab.openerTabId.t \notin {"undefined", "null"}
                        THEN JsString(ToText(tab.openerTabId)) ELSE JsUndefined,
      createdAt |-> IF t.given THEN IsoOrNull(t.createdAt) ELSE JsUndefined,
      lastActivated |-> IF t.given THEN IsoOrNull(t.lastActivated) ELSE JsUndefined,
      lastUpdated |-> IF t.given THEN IsoOrNull(t.lastUpdated) ELSE JsUndefined,
      activationCount |-> IF t.given THEN JsOr(t.activationCount, JsNumber(0)) ELSE JsUndefined,
      navigationCount |-> IF t.given THEN JsOr(t.navigationCount, JsNumber(0)) ELSE JsUndefined,
      age |-> IF t.given /\ JsTruthy(t.createdAt)
                THEN JsString(formatAge(dateNow - t.createdAt.n)) ELSE JsUndefined]

formatTab(tab, browser, dateNow) ==
  LET url == URLHostname(tab.url)
      domain == IF url.threw THEN JsNull ELSE JsString(url.hostname)
      prefix == IF JsTruthy(browser) THEN ToText(browser) \o <<":">> ELSE <<>>
      t == tab.tracking
  IN [threw |-> FALSE,
      id |-> JsString(prefix \o ToText(tab.id)),
      browser |-> JsOr(browser, JsNull),
      windowId |-> JsString(<<"w">> \o ToText(tab.windowId)),
      index |-> tab.index,
      title |-> JsOr(tab.title, JsString(<<>>)),
      url |-> JsOr(tab.url, JsString(<<>>)),
      domain |-> domain,
      active |-> JsOr(tab.active, JsBoolean(FALSE)),
      pinned |-> JsOr(tab.pinned, JsBoolean(FALSE)),
      audible |-> JsOr(tab.audible, JsBoolean(FALSE)),
      discarded |-> JsOr(tab.discarded, JsBoolean(FALSE)),
      status |-> JsOr(tab.status, JsString(<<"u", "n", "k", "n", "o", "w", "n">>)),
      openerTabId |-> IF tab.openerTabId.t \notin {"undefined", "null"}
                        THEN JsString(ToText(tab.openerTabId)) ELSE JsUndefined,
      createdAt |-> IF t.given THEN IsoOrNull(t.createdAt) ELSE JsUndefined,
      lastActivated |-> IF t.given THEN IsoOrNull(t.lastActivated) ELSE JsUndefined,
      lastUpdated |-> IF t.given THEN IsoOrNull(t.lastUpdated) ELSE JsUndefined,
      activationCount |-> IF t.given THEN JsOr(t.activationCount, JsNumber(0)) ELSE JsUndefined,
      navigationCount |-> IF t.given THEN JsOr(t.navigationCount, JsNumber(0)) ELSE JsUndefined,
      age |-> IF t.given /\ JsTruthy(t.createdAt)
                THEN JsString(formatAge(dateNow - t.createdAt.n)) ELSE JsUndefined]

(***************************************************************************)
(* The raw tabs the browser side delivers (listTabs, openTab): any field   *)
(* may be missing; tracking is null or the record kept for the tab's URL.  *)
(***************************************************************************)
ExampleUrl == <<"h", "t", "t", "p", "s", ":", "/", "/", "e", "x", "a", "m", "p", "l", "e", ".", "c", "o", "m", "/", "p", "a", "t", "h">>

UrlTexts ==
  {ExampleUrl, <<"h", "t", "t", "p", ":", "/", "/", "a", ".", "i", "o", ":", "8", "0", "8", "0", "/">>, <<"a", "b", "o", "u", "t", ":", "b", "l", "a", "n", "k">>, <<"c", "h", "r", "o", "m", "e", ":", "/", "/", "n", "e", "w", "t", "a", "b", "/">>, <<"e", "x", "a", "m", "p", "l", "e", ".", "c", "o", "m">>, <<"h", "t", "t", "p", "s", ":", "/", "/">>, <<>>}

TitleText == <<"T", "a", "b">>

Complete == <<"c", "o", "m", "p", "l", "e", "t", "e">>

\* The moments the extension recorded, around the client's Date.now().
Moments == {DateNow - 7380000, DateNow - 60000, DateNow + 1000}

Trackings ==
  {NoTracking}
    \cup {[given |-> TRUE, createdAt |-> c, lastActivated |-> a, lastUpdated |-> JsUndefined,
           activationCount |-> JsUndefined, navigationCount |-> JsNumber(5)] :
            c \in {JsNumber(x) : x \in Moments} \cup {JsUndefined},
            a \in {JsNumber(DateNow - 60000), JsNull}}

RawTabs ==
  [id : {JsNumber(7), JsUndefined},
   windowId : {JsNumber(3)},
   index : {JsNumber(1)},
   title : {JsUndefined, JsNull, JsString(TitleText)},
   url : {JsUndefined, JsNull} \cup {JsString(u) : u \in UrlTexts},
   active : {JsUndefined, JsBoolean(TRUE)},
   pinned : {JsUndefined},
   audible : {JsBoolean(FALSE)},
   discarded : {JsUndefined},
   status : {JsString(Complete)},
   openerTabId : {JsUndefined, JsNull, JsNumber(0)},
   tracking : Trackings]

\* The label formatTab is called with: r.browser of requestAll or request.
BrowserArgs == {JsUndefined, JsString(<<>>), JsString(Chrome)}

CallFormatTab ==
  \E tab \in RawTabs, browser \in BrowserArgs :
    Formatted("formatTab", [tab |-> tab, browser |-> browser], formatTab(tab, browser, DateNow))

SpecFormatAge == Init /\ [][CallFormatAge]_vars

SpecFormatTab == Init /\ [][CallFormatTab]_vars

(***************************************************************************)
(* The extension's end of the native-messaging port.  "frob" is an action  *)
(* the extension does not know; "UnknownAction" stands for the message     *)
(* 'Unknown action: frob', "NoTabWithId" for the message of an error the   *)
(* browser's tabs API rejects with.                                        *)
(***************************************************************************)
KnownActions == {"listTabs", "openTab"}

ApiOutcomes == {"ok", "rejects"}

\* handleCommand: what it returns, or the error it throws.
handleCommand(msg, api) ==
  IF Get(msg, "action") \in KnownActions
    THEN IF api = "ok" THEN [threw |-> FALSE, value |-> "tabs"]
         ELSE [threw |-> TRUE, value |-> "NoTabWithId"]
    ELSE [threw |-> TRUE, value |-> "UnknownAction"]

PortOnMessage_ErrorAsData(msg, api) ==
  IF Get(msg, "type") # "command" THEN <<>>
  ELSE LET r == handleCommand(msg, api)
       IN <<Spread(Obj1("requestId", Get(msg, "requestId")), Obj1("data", r.value))>>

\* The port.onMessage listener: the messages it posts.
PortOnMessage(msg, api) ==
  IF Get(msg, "type") # "command" THEN <<>>
  ELSE LET r == handleCommand(msg, api)
       IN IF r.threw
            THEN <<Spread(Obj1("requestId", Get(msg, "requestId")), Obj1("error", r.value))>>
            ELSE <<Spread(Obj1("requestId", Get(msg, "requestId")), Obj1("data", r.value))>>

(***************************************************************************)
(* The bridge as a process: start-up, the listen callback, the server's    *)
(* 'error' event, uncaught exceptions, and the three handlers that end the *)
(* process.  h is [proc, sock].                                            *)
(***************************************************************************)
Host == [proc |-> proc, sock |-> sock]

HostBecomes(h) ==
  /\ proc' = h.proc
  /\ sock' = h.sock
  /\ UNCHANGED <<bridgeVars, lastHello, codecVars, clientVars, formatVars, extVars>>

\* A socket file left by a bridge that ended without cleaning up, and a
\* file at the same path that belongs to another user (/tmp is sticky).
StaleFile == [exists |-> TRUE, owner |-> 0, mode |-> OwnerOnly, removable |-> TRUE]

ForeignFile == [exists |-> TRUE, owner |-> 0, mode |-> OwnerOnly, removable |-> FALSE]

\* The mode bind gives the file: 0777 without the umask (022, 002).
CreatedModes == {493, 509}

Kind(file) ==
  IF ~file.exists THEN "none"
  ELSE IF ~file.removable THEN "foreign"
  ELSE IF file.owner = 0 THEN "stale" ELSE "bridge"

\* try { fs.unlinkSync(SOCKET_PATH) } catch {}
unlinkSync(h) == IF h.sock.exists /\ h.sock.removable THEN [h EXCEPT !.sock = NoFile] ELSE h

\* try { fs.chmodSync(SOCKET_PATH, 0o600) } catch {}
chmodSync(h) ==
  IF h.sock.exists /\ h.sock.removable THEN [h EXCEPT !.sock.mode = OwnerOnly] ELSE h

\* server.listen(SOCKET_PATH, callback): bind and listen at once; the
\* callback, or the 'error' event, comes in a later turn of the event loop.
listen(h, p, mode) ==
  IF h.sock.exists
    THEN [h EXCEPT !.proc[p].errorPending = TRUE, !.proc[p].bindFailed = TRUE]
    ELSE [h EXCEPT !.proc[p].listening = TRUE, !.proc[p].callbackPending = TRUE,
                   !.sock = [exists |-> TRUE, owner |-> p, mode |-> mode, removable |-> TRUE]]

\* server.close(): a listening server stops, and closing its handle
\* unlinks the path it was bound to.
close(h, p) ==
  IF h.proc[p].listening
    THEN unlinkSync([h EXCEPT !.proc[p].listening = FALSE, !.proc[p].callbackPending = FALSE])
    ELSE h

cleanup(h, p) == unlinkSync(close(h, p))

\* process.exit(code): the 'exit' handler runs, then the process is gone.
exit(h, p, code, by) ==
  LET h1 == unlinkSync(h)
  IN [h1 EXCEPT !.proc[p].phase = "exited", !.proc[p].listening = FALSE,
                !.proc[p].callbackPending = FALSE, !.proc[p].errorPending = FALSE,
                !.proc[p].code = code, !.proc[p].by = by]

Start_NoUnlink(h, p, mode) ==
  LET h1 == [h EXCEPT !.proc[p].phase = "running", !.proc[p].found = Kind(h.sock)]
  IN listen(h1, p, mode)

\* The module's top level, lines 187-210.
Start(h, p, mode) ==
  LET h1 == [h EXCEPT !.proc[p].phase = "running", !.proc[p].found = Kind(h.sock)]
  IN listen(unlinkSync(h1), p, mode)

OnListening(h, p) == chmodSync([h EXCEPT !.proc[p].callbackPending = FALSE])

\* process.on('uncaughtException'): the error is logged.
OnUncaughtException(h, p) == [h EXCEPT !.proc[p].faults = @ + 1]

\* The server's 'error' event has no listener, so emitting it throws.
OnServerError(h, p) == OnUncaughtException([h EXCEPT !.proc[p].errorPending = FALSE], p)

OnSignal_Default(h, p, by) ==
  [h EXCEPT !.proc[p].phase = "exited", !.proc[p].listening = FALSE,
            !.proc[p].callbackPending = FALSE, !.proc[p].errorPending = FALSE,
            !.proc[p].code = 0, !.proc[p].by = by]

\* The SIGINT, SIGTERM and stdin 'end' handlers.
OnSignal(h, p, by) == exit(cleanup(h, p), p, 0, by)

ExitPaths == {"SIGINT", "SIGTERM", "end"}

Running(p) == proc[p].phase = "running"

BridgeStart(p) ==
  /\ proc[p].phase = "none"
  /\ \E mode \in CreatedModes : HostBecomes(Start(Host, p, mode))

ListenCallback(p) ==
  /\ Running(p) /\ proc[p].callbackPending
  /\ HostBecomes(OnListening(Host, p))

ServerError(p) ==
  /\ Running(p) /\ proc[p].errorPending
  /\ HostBecomes(OnServerError(Host, p))

Fault(p) ==
  /\ Running(p) /\ proc[p].faults < MaxFaults
  /\ HostBecomes(OnUncaughtException(Host, p))

Shutdown(p) ==
  /\ Running(p)
  /\ \E by \in ExitPaths : HostBecomes(OnSignal(Host, p, by))

InitHost ==
  /\ InitBridge
  /\ files = {}
  /\ command = NoCommand
  /\ requests = <<>>
  /\ outcome = NotStarted
  /\ now = 0
  /\ idText = <<>>
  /\ parsed = NotParsed
  /\ formatted = NotFormatted
  /\ ext = InitExt
  /\ proc = [p \in Bridges |-> NotStartedProc]
  /\ sock \in {NoFile, StaleFile, ForeignFile}

NextHost ==
  \/ \E p \in Bridges : BridgeStart(p)
  \/ \E p \in Bridges : ListenCallback(p)
  \/ \E p \in Bridges : ServerError(p)
  \/ \E p \in Bridges : Fault(p)
  \/ \E p \in Bridges : Shutdown(p)

SpecHost == InitHost /\ [][NextHost]_vars

(***************************************************************************)
(* C21: for every non-negative duration, with m the whole minutes, h the   *)
(* whole hours and d the whole days in it, formatAge returns "<d>d <h mod  *)
(* 24>h" when d >= 1, otherwise "<h>h <m mod 60>m" when h >= 1, otherwise  *)
(* "<m>m"; seconds never appear.                                           *)
(***************************************************************************)
AgeText(ms) ==
  LET m == ms \div 60000
      h == m \div 60
      d == h \div 24
  IN IF d >= 1 THEN NumberToString(d) \o <<"d", " ">> \o NumberToString(h % 24) \o <<"h">>
     ELSE IF h >= 1 THEN NumberToString(h) \o <<"h", " ">> \o NumberToString(m % 60) \o <<"m">>
     ELSE NumberToString(m) \o <<"m">>

C21_Examples ==
  /\ formatAge(5 * 60000) = <<"5", "m">>
  /\ formatAge((2 * 60 + 15) * 60000) = <<"2", "h", " ", "1", "5", "m">>
  /\ formatAge(26 * 60 * 60000) = <<"1", "d", " ", "2", "h">>

C21_FormatAge ==
  /\ (formatted.fn = "formatAge" /\ formatted.arg >= 0)
       => /\ formatted.result = AgeText(formatted.arg)
          /\ "s" \notin Range(formatted.result)
  /\ C21_Examples

C21_Witness ==
  /\ formatted.fn = "formatAge"
  /\ formatted.arg = 26 * 60 * 60000 + 59999
  /\ formatted.result = <<"1", "d", " ", "2", "h">>

(***************************************************************************)
(* C22: formatAge renders every zero or negative duration as "0m".         *)
(***************************************************************************)
C22_NonPositiveIsZeroMinutes ==
  (formatted.fn = "formatAge" /\ formatted.arg <= 0) => formatted.result = <<"0", "m">>

\* What the code returns one millisecond before zero.
C22_Witness ==
  /\ formatted.fn = "formatAge"
  /\ formatted.arg = -1
  /\ formatted.result = <<"-", "1", "m">>

\* Zero itself is rendered as "0m".
C22_Zero == (formatted.fn = "formatAge" /\ formatted.arg = 0) => formatted.result = <<"0", "m">>

(***************************************************************************)
(* C23: formatTab never raises, and in its result id is a text (the label  *)
(* and a colon first when a label is given), title and url are texts (the  *)
(* empty text when the raw tab has none or null), the boolean fields are   *)
(* false when the raw tab has none, and domain is the host of url when url *)
(* is a URL and null otherwise.                                            *)
(***************************************************************************)
Missing(v) == v.t \in {"undefined", "null"}

\* The host of each URL text of UrlTexts; NoHost for a text that is no URL.
NoHost == <<"-">>

HostOf(v) ==
  IF v.t # "string" THEN NoHost
  ELSE CASE v.s = ExampleUrl -> <<"e", "x", "a", "m", "p", "l", "e", ".", "c", "o", "m">>
         [] v.s = <<"h", "t", "t", "p", ":", "/", "/", "a", ".", "i", "o", ":", "8", "0", "8", "0", "/">> -> <<"a", ".", "i", "o">>
         [] v.s = <<"a", "b", "o", "u", "t", ":", "b", "l", "a", "n", "k">> -> <<>>
         [] v.s = <<"c", "h", "r", "o", "m", "e", ":", "/", "/", "n", "e", "w", "t", "a", "b", "/">> -> <<"n", "e", "w", "t", "a", "b">>
         [] OTHER -> NoHost

TextOr(v, default) == IF Missing(v) THEN JsString(default) ELSE v

C23_FormatTabNormalises ==
  formatted.fn = "formatTab" =>
    LET tab == formatted.arg.tab
        label == formatted.arg.browser
        r == formatted.result
    IN /\ ~r.threw
       /\ r.id.t = "string"
       /\ r.id.s = (IF label.t = "string" /\ label.s # <<>> THEN label.s \o <<":">> ELSE <<>>)
                     \o ToText(tab.id)
       /\ r.title = TextOr(tab.title, <<>>)
       /\ r.url = TextOr(tab.url, <<>>)
       /\ \A f \in {"active", "pinned", "audible", "discarded"} :
            /\ r[f].t = "boolean"
            /\ r[f].b = (tab[f].t = "boolean" /\ tab[f].b)
       /\ r.domain = (IF HostOf(tab.url) = NoHost THEN JsNull ELSE JsString(HostOf(tab.url)))

C23_Witness ==
  /\ formatted.fn = "formatTab"
  /\ formatted.arg.tab.url = JsString(<<"e", "x", "a", "m", "p", "l", "e", ".", "c", "o", "m">>)
  /\ formatted.arg.tab.title = JsNull
  /\ formatted.arg.tab.active = JsUndefined
  /\ formatted.result.domain = JsNull
  /\ formatted.result.title = JsString(<<>>)
  /\ formatted.result.id = JsString(<<"c", "h", "r", "o", "m", "e", ":", "7">>)

\* The call of the test: label chrome, a parsable url, a tab created 2 h 3 min ago.
C23_Test ==
  (/\ formatted.fn = "formatTab"
   /\ formatted.arg.browser = JsString(Chrome)
   /\ formatted.arg.tab.id = JsNumber(7)
   /\ formatted.arg.tab.url = JsString(ExampleUrl)
   /\ formatted.arg.tab.tracking.createdAt = JsNumber(DateNow - 7380000))
    => /\ formatted.result.id = JsString(<<"c", "h", "r", "o", "m", "e", ":", "7">>)
       /\ formatted.result.windowId = JsString(<<"w", "3">>)
       /\ formatted.result.domain = JsString(<<"e", "x", "a", "m", "p", "l", "e", ".", "c", "o", "m">>)
       /\ formatted.result.age = JsString(<<"2", "h", " ", "3", "m">>)
       /\ formatted.result.createdAt = JsString(<<"1", "9", "7", "0", "-", "0", "1", "-", "0", "2", "T", "2", "3", ":", "5", "7", ":", "0", "0", ".", "0", "0", "0", "Z">>)

C24_FaultIsNoExit ==
  \A p \in Bridges :
    Running(p) =>
      LET h == OnUncaughtException(Host, p)
      IN h.proc[p].phase = "running" /\ h.sock = sock /\ h.proc[p].listening = proc[p].listening

(***************************************************************************)
(* C25: a bridge that starts while its bind address is free, or holds a    *)
(* socket file an earlier bridge of the same user left behind, removes the *)
(* file, binds and listens.                                                *)
(***************************************************************************)
C25_StartBindsOverStaleFile ==
  /\ \A p \in Bridges, mode \in CreatedModes :
       (proc[p].phase = "none" /\ Kind(sock) # "foreign") =>
         LET h == Start(Host, p, mode)
         IN /\ h.proc[p].listening /\ ~h.proc[p].bindFailed
            /\ h.sock.exists /\ h.sock.owner = p
  /\ \A p \in Bridges :
       (proc[p].phase # "none" /\ proc[p].found # "foreign") => ~proc[p].bindFailed

C25_Witness ==
  \E p \in Bridges :
    /\ proc[p].found = "stale"
    /\ proc[p].listening
    /\ sock.exists /\ sock.owner = p

(***************************************************************************)
(* C26: whenever the socket of a bridge exists and the bridge accepts      *)
(* connections on it, the file's mode is owner-only (0600).                *)
(***************************************************************************)
C26_OwnerOnlyWhileListening ==
  \A p \in Bridges :
    (proc[p].listening /\ sock.exists /\ sock.owner = p) => sock.mode = OwnerOnly

\* Bound and listening with the mode bind gave it; chmod is still to come.
C26_Witness ==
  \E p \in Bridges :
    /\ proc[p].listening /\ proc[p].callbackPending
    /\ sock.exists /\ sock.owner = p
    /\ sock.mode = 509

\* After the listen callback has run the mode is 0600.
C26_OwnerOnlyAfterCallback ==
  \A p \in Bridges :
    (proc[p].listening /\ ~proc[p].callbackPending /\ sock.exists /\ sock.owner = p)
      => sock.mode = OwnerOnly

(***************************************************************************)
(* C30: a bridge whose bind failed at start-up terminates: it is never     *)
(* left running without a listening socket once the failure has been       *)
(* reported.                                                               *)
(***************************************************************************)
C30_BindFailureIsFatal ==
  \A p \in Bridges :
    (proc[p].bindFailed /\ ~proc[p].errorPending) => proc[p].phase = "exited"

\* The failure was logged by the uncaughtException handler and the process
\* runs on without a server.
C30_Witness ==
  \E p \in Bridges :
    /\ proc[p].bindFailed /\ ~proc[p].errorPending
    /\ proc[p].phase = "running" /\ ~proc[p].listening
    /\ proc[p].faults = 1

\* The bind fails exactly when a file this user cannot unlink is at SOCKET_PATH.
C30_OnlyForeignFileFails ==
  \A p \in Bridges : proc[p].bindFailed <=> (proc[p].phase # "none" /\ proc[p].found = "foreign")

(***************************************************************************)
(* C27: when the extension's handler throws for a command that is in       *)
(* flight (an unknown action, or an error of the tabs API), the extension  *)
(* posts {requestId, error: message}; the bridge, given that frame,        *)
(* rejects the request with the message and writes the line {error:        *)
(* message} on the connection the request came from, and on nothing else;  *)
(* the client's requestOne, given that line, rejects with the same         *)
(* message.  The error never becomes a success and is never dropped.       *)
(***************************************************************************)
\* The command the bridge sent for call k, as the extension parses it.
CommandOf(k) ==
  Spread([type |-> "command", requestId |-> calls[k].rid]
           @@ Obj1("action", Get(calls[k].msg, "action")),
         Without(calls[k].msg, "action"))

\* A requestOne of the client that has connected and sent msg.
InFlight(msg) == OnConnect(requestOne(Client, socketPath(Chrome), msg).requests[Len(requests) + 1])

C27_ErrorSurfacedVerbatim ==
  \A rid \in DOMAIN pending, api \in ApiOutcomes :
    LET k == pending[rid]
        c == calls[k].conn
        thrown == handleCommand(CommandOf(k), api)
        posted == PortOnMessage(CommandOf(k), api)
    IN (stdinBuf = <<>> /\ thrown.threw) =>
         /\ posted = <<[requestId |-> rid, error |-> thrown.value]>>
         /\ LET s == StdinOnData(State, Frames(<<Stringify(posted[1])>>))
                line == Line([error |-> thrown.value])
                r == OnData(InFlight(calls[k].msg), line)
            IN /\ s.calls[k].promise = "rejected"
               /\ s.calls[k].value = thrown.value
               /\ s.calls[k].writes = 1
               /\ rid \notin DOMAIN s.pending
               /\ s.connOut = [connOut EXCEPT ![c] = @ \o line]
               /\ r.promise = "rejected"
               /\ r.value = <<Error(thrown.value)>>
               /\ r.settleCalls = 1

\* The unknown action was forwarded, the extension's error came back, and
\* the line with the message is the only thing written to the client.
C27_Witness ==
  \E k \in ForwardedCalls :
    /\ Get(calls[k].msg, "action") = "frob"
    /\ calls[k].by = "response"
    /\ calls[k].promise = "rejected"
    /\ calls[k].value = "UnknownAction"
    /\ PortOnMessage(CommandOf(k), "ok") = <<[requestId |-> calls[k].rid, error |-> "UnknownAction"]>>
    /\ connOut[calls[k].conn] = Line([error |-> "UnknownAction"])

(***************************************************************************)
(* C28: the request lines of one chunk on one connection are dispatched in *)
(* the order they arrived: their command frames are appended to the        *)
(* browser channel in line order, each with the next requestId; and a      *)
(* connection that waits for the browser blocks no other: a line arriving  *)
(* on a second connection is dispatched at once, and a status line is      *)
(* answered at once, while the first request is still pending.             *)
(***************************************************************************)
RequestLines == {Stringify(r) : r \in SocketRequests}

\* The command frame of the j-th forwarded line, counted from this state.
FrameOf(line, j) ==
  NativeMessage(Spread([type |-> "command", requestId |-> UUIDs[uuids + j]]
                         @@ Obj1("action", Get(JsonParse(line), "action")),
                       Without(JsonParse(line), "action")))

StatusLine == Line([browsers |-> IF browserConnected THEN <<browserName>> ELSE <<>>])

C28_ArrivalOrderAndNoBlocking ==
  /\ \A c \in OpenConns, lines \in SeqsUpTo(RequestLines, MaxLinesPerChunk) :
       (browserConnected /\ connBuf[c] = <<>>) =>
         LET s == ConnOnData(State, c, Flatten([i \in DOMAIN lines |-> lines[i] \o <<Punct.nl>>]))
             fw == SelectSeq(lines, Forwarded)
         IN /\ s.stdout = stdout \o [j \in 1..Len(fw) |-> FrameOf(fw[j], j)]
            /\ Len(s.calls) = Len(calls) + Len(fw)
            /\ \A j \in 1..Len(fw) :
                 /\ s.calls[Len(calls) + j].msg = JsonParse(fw[j])
                 /\ s.calls[Len(calls) + j].conn = c
                 /\ s.calls[Len(calls) + j].rid = UUIDs[uuids + j]
            /\ s.connOut[c] = connOut[c] \o Flatten([i \in 1..(Len(lines) - Len(fw)) |-> StatusLine])
  /\ \A rid \in DOMAIN pending, c \in OpenConns, line \in RequestLines :
       (browserConnected /\ c # calls[pending[rid]].conn /\ connBuf[c] = <<>>) =>
         LET s == ConnOnData(State, c, line \o <<Punct.nl>>)
         IN /\ rid \in DOMAIN s.pending
            /\ s.calls[pending[rid]] = calls[pending[rid]]
            /\ IF Forwarded(line)
                 THEN /\ s.stdout = Append(stdout, FrameOf(line, 1))
                      /\ s.pending[UUIDs[uuids + 1]] = Len(calls) + 1
                 ELSE s.connOut[c] = connOut[c] \o StatusLine

\* A request of connection 2 was dispatched while the request of
\* connection 1 was, and still is, pending.
C28_Witness ==
  /\ Len(calls) = 2 /\ Len(stdout) = 2
  /\ calls[1].conn = 1 /\ calls[2].conn = 2
  /\ calls[1].promise = "pending" /\ calls[2].promise = "pending"
  /\ calls[1].rid \in DOMAIN pending /\ calls[2].rid \in DOMAIN pending

\* Two lines that came in one chunk: both are pending, in line order.
C28_Pipelined ==
  /\ Len(calls) = 2
  /\ calls[1].conn = 1 /\ calls[2].conn = 1
  /\ Get(calls[1].msg, "action") = "listTabs" /\ Get(calls[2].msg, "action") = "frob"
  /\ calls[1].rid = UUIDs[1] /\ calls[2].rid = UUIDs[2]
  /\ DOMAIN pending = {UUIDs[1], UUIDs[2]}

(***************************************************************************)
(* C29: the requests in flight have pairwise distinct requestIds, each the *)
(* key of its own pending entry; a response settles the request whose      *)
(* requestId it carries and nothing else; and when two requests are in     *)
(* flight and the browser answers them in either order, each request gets  *)
(* the outcome its own response carries and each connection the line of    *)
(* its own request.                                                        *)
(***************************************************************************)
AnswerLines(s, k1, m1, k2, m2) ==
  [c \in Conns |->
     connOut[c]
       \o (IF calls[k1].conn = c THEN ResponseLine(m1) ELSE <<>>)
       \o (IF calls[k2].conn = c THEN ResponseLine(m2) ELSE <<>>)]

C29_CorrelatedByRequestId ==
  /\ \A k1, k2 \in ForwardedCalls : k1 # k2 => calls[k1].rid # calls[k2].rid
  /\ \A rid \in DOMAIN pending :
       /\ calls[pending[rid]].rid = rid
       /\ calls[pending[rid]].promise = "pending"
  /\ stdinBuf = <<>> =>
       \A rid \in DOMAIN pending : \A m \in Responses(rid) :
         LET s == StdinOnData(State, Frames(<<Stringify(m)>>))
             k == pending[rid]
         IN /\ s.calls[k].value = ResponseValue(m)
            /\ \A j \in DOMAIN calls : j # k => s.calls[j] = calls[j]
            /\ \A c \in Conns : c # calls[k].conn => s.connOut[c] = connOut[c]
            /\ s.connOut[calls[k].conn] = connOut[calls[k].conn] \o ResponseLine(m)
            /\ s.pending = Without(pending, rid)
  /\ stdinBuf = <<>> =>
       \A rid1, rid2 \in DOMAIN pending :
         \A m1 \in Responses(rid1), m2 \in Responses(rid2) :
           rid1 # rid2 =>
             LET k1 == pending[rid1]
                 k2 == pending[rid2]
                 s == StdinOnData(State, Frames(<<Stringify(m2), Stringify(m1)>>))
             IN /\ s.calls[k1].value = ResponseValue(m1)
                /\ s.calls[k2].value = ResponseValue(m2)
                /\ s.calls[k1].promise = (IF "error" \in DOMAIN m1 THEN "rejected" ELSE "resolved")
                /\ s.calls[k2].promise = (IF "error" \in DOMAIN m2 THEN "rejected" ELSE "resolved")
                /\ s.connOut = AnswerLines(s, k2, m2, k1, m1)
                /\ s.pending = Without(Without(pending, rid1), rid2)

\* Two requests of two connections were in flight and each connection got
\* the line of its own request: the first an error, the second its data.
C29_Witness ==
  /\ Len(calls) = 2
  /\ calls[1].conn = 1 /\ calls[2].conn = 2
  /\ calls[1].by = "response" /\ calls[2].by = "response"
  /\ calls[1].value = "UnknownAction" /\ calls[2].value = "tabs"
  /\ connOut[1] = Line([error |-> "UnknownAction"])
  /\ connOut[2] = Line([data |-> "tabs"])
  /\ pending = EmptyObj

\* A request whose params hold a key named requestId: the spread in
\* sendToBrowser puts the client's value into the frame, while the pending
\* entry is keyed by the generated one.  No command of the client has such
\* a param.
C29_ParamsOverrideRequestId ==
  \A c \in OpenConns :
    (browserConnected /\ connBuf[c] = <<>>) =>
      LET s == ConnOnData(State, c, Line([action |-> "listTabs", requestId |-> "id6"]))
      IN /\ s.stdout = Append(stdout, NativeMessage([type |-> "command", requestId |-> "id6",
                                                     action |-> "listTabs"]))
         /\ DOMAIN s.pending = DOMAIN pending \cup {UUIDs[uuids + 1]}

(***************************************************************************)
(* C38: as long as a bridge is listening, the socket file it bound exists  *)
(* at its address and is its own: neither the start-up cleanup nor the     *)
(* shutdown of another bridge removes it.                                  *)
(***************************************************************************)
C38_ListeningBridgeKeepsItsSocket ==
  \A p \in Bridges : proc[p].listening => (sock.exists /\ sock.owner = p)

\* Both bridges listen, and the path holds the socket of the one that
\* started last: the other cannot be reached.
C38_Witness ==
  \E p, q \in Bridges :
    /\ p # q
    /\ proc[p].listening /\ proc[q].listening
    /\ sock.exists /\ sock.owner = q

\* A bridge has shut down and taken the path with it while the other one
\* still listens.
C38_ShutdownRemovesOthers ==
  \E p, q \in Bridges :
    /\ p # q
    /\ proc[p].phase = "exited"
    /\ proc[q].listening
    /\ ~sock.exists

\* With one bridge only, a listening bridge keeps its socket file.
C38_AloneKeepsItsSocket ==
  \A p \in Bridges :
    (proc[p].listening /\ \A q \in Bridges : q # p => proc[q].phase = "none")
      => (sock.exists /\ sock.owner = p)

(***************************************************************************)
(* C36: in every state of the bridge a requestId is a key of the pending   *)
(* table exactly when a command frame with it has been written and its     *)
(* request is settled neither by a response nor by its timer; every entry  *)
(* has an armed timer of its own; so when every forwarded request has been *)
(* answered or has timed out, the table is empty.                          *)
(***************************************************************************)
Emitted(k) == \E i \in DOMAIN stdout : stdout[i] = NativeMessage(CommandOf(k))

Unsettled == {k \in ForwardedCalls : calls[k].promise = "pending"}

C36_PendingTableInvariant ==
  /\ \A rid \in Range(UUIDs) :
       rid \in DOMAIN pending <=>
         \E k \in DOMAIN calls :
           /\ calls[k].rid = rid
           /\ Emitted(k)
           /\ calls[k].promise = "pending"
           /\ calls[k].by = "none"
  /\ \A k \in ForwardedCalls : Emitted(k)
  /\ Len(stdout) = Cardinality(ForwardedCalls)
  /\ DOMAIN timers = DOMAIN pending
  /\ \A rid \in DOMAIN pending : timers[rid].call = pending[rid]
  /\ Cardinality(DOMAIN pending) = Cardinality(Unsettled)
  /\ Unsettled = {} => (pending = EmptyObj /\ timers = EmptyObj)

\* Two commands were sent, one was answered and one timed out, and the
\* table is empty again.
C36_Witness ==
  /\ Len(stdout) = 2
  /\ Cardinality(ForwardedCalls) = 2
  /\ \E k1, k2 \in ForwardedCalls : calls[k1].by = "response" /\ calls[k2].by = "timer"
  /\ pending = EmptyObj
  /\ timers = EmptyObj

(***************************************************************************)
(* The connection handler fed with bytes.  A chunk is any piece of the     *)
(* byte stream of request lines: the socket cuts the stream where it       *)
(* likes, also inside a character.                                         *)
(***************************************************************************)
ByteLines == {Stringify([action |-> "status"]), Stringify([action |-> "openTab", url |-> "u_e9"])}

LineBytes == {Utf8Encode(line \o <<Punct.nl>>) : line \in ByteLines}

NotEmpty(text) == text # <<>>

Cuts(bytes) == {Take(bytes, i) : i \in 1..Len(bytes)} \cup {Drop(bytes, i) : i \in 1..(Len(bytes) - 1)}

ByteChunks == UNION {Cuts(bytes) : bytes \in LineBytes}

\* The chunk continues the stream: it starts a line, or it is the rest of
\* the line whose start is in the buffer.
Continues(c, bytes) ==
  \E whole \in LineBytes, i \in 0..MaxBuf :
    /\ i <= Len(whole)
    /\ \/ i >= 1 /\ bytes = Take(whole, i) /\ connBuf[c] = <<>>
       \/ i < Len(whole) /\ bytes = Drop(whole, i)
            /\ connBuf[c] = OneValue(Utf8Decode(Take(whole, i)))

ConnBytes(c, bytes) ==
  /\ connState[c] = "open"
  /\ Continues(c, bytes)
  /\ \E s \in {ConnOnChunk(State, c, bytes)} :
       /\ Len(s.calls) <= MaxCalls
       /\ Count(s.calls, Unanswered)
            + Count(Flatten([d \in Conns |-> s.connOut[d]]), IsNewline)
            + Count(s.connBuf, NotEmpty) <= MaxLines
       /\ Len(s.connBuf[c]) <= MaxBuf
       /\ Becomes(s)
  /\ UNCHANGED lastHello
  /\ UNCHANGED codecVars
  /\ UNCHANGED <<clientVars, formatVars, hostVars, extVars>>

NextLines ==
  \/ \E c \in Conns : ConnAccept(c)
  \/ \E c \in Conns : \E bytes \in ByteChunks : ConnBytes(c, bytes)
  \/ \E bodies \in SeqsUpTo(FrameBodies, MaxFramesPerChunk) : StdinData(bodies)

SpecLines == Init /\ [][NextLines]_vars

(***************************************************************************)
(* C33: the socket line protocol of the bridge is independent of chunk     *)
(* boundaries: however the bytes of a request line are cut into two        *)
(* chunks, the bridge ends in the state it reaches when the line comes in  *)
(* one chunk: the same requests dispatched, the same frames and answers    *)
(* written, the same buffer left.                                          *)
(***************************************************************************)
C33_ChunkIndependent ==
  \A c \in OpenConns, bytes \in LineBytes, i \in 0..MaxBuf :
    (connBuf[c] = <<>> /\ Len(calls) < MaxCalls /\ i <= Len(bytes)) =>
      Quiet(ConnOnChunk(ConnOnChunk(State, c, Take(bytes, i)), c, Drop(bytes, i)))
        = Quiet(ConnOnChunk(State, c, bytes))

\* A request reached the browser with its url replaced: the line that
\* carried it was cut inside the two bytes of a character.
C33_Witness ==
  \E k \in ForwardedCalls :
    /\ Get(calls[k].msg, "action") = "openTab"
    /\ Get(calls[k].msg, "url") = "garbled"
    /\ Emitted(k)

\* The same line, received whole or cut between characters, keeps its url.
C33_WholeCharacters ==
  \E k \in ForwardedCalls :
    /\ Get(calls[k].msg, "action") = "openTab"
    /\ Get(calls[k].msg, "url") = "u_e9"
    /\ Emitted(k)

\* Cut anywhere but inside a character, a line is dispatched as if it came
\* whole; it is dispatched once, by the chunk that brings its newline, and
\* the first chunk dispatches nothing and is kept in the buffer.
C33_CutBetweenCharacters ==
  \A c \in OpenConns, line \in ByteLines, i \in 0..MaxBuf :
    LET text == line \o <<Punct.nl>>
        first == ConnOnChunk(State, c, Utf8Encode(Take(text, i)))
        both == ConnOnChunk(first, c, Utf8Encode(Drop(text, i)))
    IN (connBuf[c] = <<>> /\ Len(calls) < MaxCalls /\ i < Len(text)) =>
         /\ Quiet(both) = Quiet(ConnOnChunk(State, c, Utf8Encode(text)))
         /\ Quiet(first) = Quiet([State EXCEPT !.connBuf[c] = Take(text, i)])
         /\ both.connBuf[c] = <<>>
         /\ Len(both.calls) + Len(both.connOut[c]) > Len(calls) + Len(connOut[c])

(***************************************************************************)
(* An id on its way from list to close, activate or move: formatTab makes  *)
(* the id of a raw tab under the label of the bridge that listed it, the   *)
(* user passes the text on unchanged, and parsePrefixedId takes it apart.  *)
(***************************************************************************)
TabIds == (0 - 1)..MaxTabId

ListedTab(n) ==
  [id |-> JsNumber(n), windowId |-> JsNumber(3), index |-> JsNumber(1),
   title |-> JsString(TitleText), url |-> JsString(ExampleUrl), active |-> JsBoolean(TRUE),
   pinned |-> JsUndefined, audible |-> JsBoolean(FALSE), discarded |-> JsUndefined,
   status |-> JsString(Complete), openerTabId |-> JsUndefined, tracking |-> NoTracking]

ShowId(L, n) ==
  /\ formatted = NotFormatted
  /\ formatted' = [fn |-> "formatTab", arg |-> [tab |-> ListedTab(n), browser |-> JsString(L)],
                   result |-> formatTab(ListedTab(n), JsString(L), DateNow)]
  /\ idText' = ToText(formatted'.result.id)
  /\ UNCHANGED <<bridgeVars, lastHello, codecVars, files, command, requests, outcome, now,
                 parsed, hostVars, extVars>>

PassId ==
  /\ formatted # NotFormatted
  /\ parsed = NotParsed
  /\ parsed' = [fn |-> "parsePrefixedId", result |-> parsePrefixedId(files, idText)]
  /\ UNCHANGED <<bridgeVars, lastHello, codecVars, files, command, requests, outcome, now,
                 idText, formatVars, hostVars, extVars>>

InitRoundTrip ==
  /\ InitBridge
  /\ files \in SUBSET KnownPaths
  /\ command = NoCommand
  /\ requests = <<>>
  /\ outcome = NotStarted
  /\ now = 0
  /\ idText = <<>>
  /\ parsed = NotParsed
  /\ formatted = NotFormatted
  /\ ext = InitExt
  /\ InitRunning

NextRoundTrip ==
  \/ \E i \in DOMAIN KNOWN_BROWSERS, n \in TabIds : ShowId(KNOWN_BROWSERS[i], n)
  \/ PassId

SpecRoundTrip == InitRoundTrip /\ [][NextRoundTrip]_vars

(***************************************************************************)
(* C37: for every known browser label L and every integer tab id n, the id *)
(* formatTab produces for raw tab n under label L parses back with         *)
(* parsePrefixedId to (L, n), whatever sockets exist.                      *)
(***************************************************************************)
C37_IdRoundTrip ==
  /\ formatted # NotFormatted =>
       /\ idText = formatted.arg.browser.s \o <<":">> \o NumberToString(formatted.arg.tab.id.n)
       /\ \A fs \in SUBSET KnownPaths :
            parsePrefixedId(fs, idText)
              = [browser |-> formatted.arg.browser.s, tabId |-> formatted.arg.tab.id.n]
  /\ parsed # NotParsed =>
       parsed.result = [browser |-> formatted.arg.browser.s, tabId |-> formatted.arg.tab.id.n]

\* A three-digit id listed by firefox came back as (firefox, n) while only
\* chrome's socket exists.
C37_Witness ==
  /\ parsed # NotParsed
  /\ formatted # NotFormatted
  /\ formatted.arg.browser.s = Firefox
  /\ formatted.arg.tab.id.n >= 100
  /\ files = {socketPath(Chrome)}
  /\ parsed.result.browser = Firefox
  /\ parsed.result.tabId = formatted.arg.tab.id.n

\* The browser's "no tab" id, -1, makes the round trip as well.
C37_Negative ==
  /\ parsed # NotParsed
  /\ idText = Chrome \o <<":", "-", "1">>
  /\ parsed.result = [browser |-> Chrome, tabId |-> 0 - 1]

(***************************************************************************)
(* tabctl status.  The bridge behind a socket answers a status line from   *)
(* its own state: it has processed the hello of its browser, or not yet.   *)
(***************************************************************************)
BridgeOf(label, connected) ==
  LET s == [InitState EXCEPT !.connState[1] = "open"] IN
  IF connected
    THEN StdinOnData(s, BrowserFrame(Stringify([type |-> "hello"] @@ Obj1("browser", label))))
    ELSE s

\* What the bridge writes when the client's status line arrives.
StatusReply(label, connected) ==
  ConnOnData(BridgeOf(label, connected), 1, Line([action |-> "status"])).connOut[1]

LabelAtom(b) == IF b = Chrome THEN "chrome" ELSE "firefox"

LabelOfPath(path) == CHOOSE b \in {Firefox, Chrome} : socketPath(b) = path

StatusData(i, connected) ==
  /\ requests[i].conn = "open"
  /\ requests[i].written = <<[action |-> "status"]>>
  /\ \E cl \in {Resume([Client EXCEPT !.requests[i] =
                          OnData(@, StatusReply(LabelAtom(LabelOfPath(requests[i].path)),
                                                 connected))])} :
       ClientBecomes(cl)
  /\ UNCHANGED restVars

NextStatus ==
  \/ \E b \in {Firefox, Chrome} : SocketAppears(b)
  \/ \E b \in {Firefox, Chrome} : SocketDisappears(b)
  \/ Run([name |-> "getStatus"])
  \/ \E i \in DOMAIN requests : Connect(i)
  \/ \E i \in DOMAIN requests : \E err \in ConnectErrors \cup {[code |-> "ECONNRESET"]} :
       ConnError(i, err)
  \/ \E i \in DOMAIN requests : \E connected \in BOOLEAN : StatusData(i, connected)
  \/ \E i \in DOMAIN requests : RequestTimerFire(i)
  \/ ClientTick

SpecStatus == Init /\ [][NextStatus]_vars

(***************************************************************************)
(* C31: getStatus lists a browser label only if the bridge of that browser *)
(* reported a connected browser: the request to that bridge's socket was   *)
(* answered with a non-empty browsers list.  With no socket found it       *)
(* returns {browsers: []} and sends nothing.                               *)
(***************************************************************************)
StatusRan == command # NoCommand /\ command.name = "getStatus"

RequestTo(b) == CHOOSE i \in DOMAIN requests : requests[i].path = socketPath(b)

C31_OnlyConnectedListed ==
  (StatusRan /\ outcome.status = "fulfilled") =>
    /\ \A j \in DOMAIN outcome.value.browsers :
         LET r == requests[RequestTo(outcome.value.browsers[j])]
         IN r.promise = "fulfilled" /\ r.value[1].browsers # <<>>
    /\ command.fs = {} => (outcome.value = [browsers |-> <<>>] /\ requests = <<>>)

\* The bridge of chrome answered {browsers: []} and chrome is listed.
C31_Witness ==
  /\ StatusRan
  /\ outcome.status = "fulfilled"
  /\ outcome.value.browsers = <<Chrome>>
  /\ requests[1].promise = "fulfilled"
  /\ requests[1].value[1] = [browsers |-> <<>>]

\* What the code does: every socket that answered is listed, whatever it
\* answered; and without sockets the result is the empty list.
C31_AnsweringSocketsListed ==
  (StatusRan /\ outcome.status = "fulfilled") =>
    /\ \A b \in {Firefox, Chrome} :
         (\E j \in DOMAIN outcome.value.browsers : outcome.value.browsers[j] = b)
           <=> (\E i \in DOMAIN requests :
                  requests[i].path = socketPath(b) /\ requests[i].promise = "fulfilled")
    /\ command.fs = {} => (outcome.value = [browsers |-> <<>>] /\ requests = <<>>)

\* No bridge was found: the empty list, at once.
C31_NoBridge ==
  StatusRan /\ command.fs = {} /\ outcome.status = "fulfilled" /\ outcome.value.browsers = <<>>

\* Both bridges had their browser: both labels.
C31_BothConnected ==
  /\ StatusRan /\ outcome.status = "fulfilled"
  /\ outcome.value.browsers = <<Firefox, Chrome>>
  /\ \A i \in 1..2 : requests[i].promise = "fulfilled" /\ requests[i].value[1].browsers # <<>>

(***************************************************************************)
(* closeTabs with lists of ids of both browsers, with and without prefix.  *)
(***************************************************************************)
CloseIds == {Firefox \o <<":", "1">>, Chrome \o <<":", "2">>, Firefox \o <<":", "3">>, <<"4">>}

AckLines == {Line([data |-> "tabs"]), Line([error |-> "NoTabWithId"])}

NextCloseTabs ==
  \/ \E b \in {Firefox, Chrome} : SocketAppears(b)
  \/ \E b \in {Firefox, Chrome} : SocketDisappears(b)
  \/ \E ids \in SeqsUpTo(CloseIds, MaxIds) : Run([name |-> "closeTabs", ids |-> ids])
  \/ \E i \in DOMAIN requests : Connect(i)
  \/ \E i \in DOMAIN requests : ConnError(i, [code |-> "ECONNREFUSED"])
  \/ \E i \in DOMAIN requests : \E chunk \in AckLines : Data(i, chunk)

SpecCloseTabs == Init /\ [][NextCloseTabs]_vars

\* The parse of the i-th id of the command, with the sockets it ran with.
IdOf(i) == parsePrefixedId(command.fs, command.ids[i])

LabelsOf(ids, fs) == {GroupKey(parsePrefixedId(fs, ids[i]).browser) : i \in DOMAIN ids}

\* The numeric ids that carried label b, in input order.
IdsOf(b) ==
  LET at == SelectSeq([i \in DOMAIN command.ids |-> i], LAMBDA i : GroupKey(IdOf(i).browser) = b)
  IN [j \in DOMAIN at |-> IdOf(at[j]).tabId]

RequestsTo(b) == {i \in DOMAIN requests : requests[i].path = socketPath(b)}

CloseRan == command # NoCommand /\ command.name = "closeTabs"

C35_StopsAtFirstFailure ==
  /\ CloseRan
  /\ Cardinality(LabelsOf(command.ids, command.fs)) = 2
  /\ Len(requests) = 1
  /\ requests[1].promise = "rejected"
  /\ outcome.status = "rejected"

\* An unprefixed id joined the ids of the sole bridge.
C35_UnprefixedToSole ==
  /\ CloseRan
  /\ command.ids = <<Chrome \o <<":", "2">>, <<"4">>>>
  /\ command.fs = {socketPath(Chrome)}
  /\ Len(requests) = 1
  /\ requests[1].msg.tabIds = <<2, 4>>
  /\ outcome.status = "fulfilled"

(***************************************************************************)
(* tabctl close --duplicates.  The listed tabs come in the order of        *)
(* listTabs: bridge after bridge, and within a browser by window and       *)
(* position, which is not the order the tabs were created in.  `created`   *)
(* is the moment the browser created the tab; the tracking the extension   *)
(* keeps is per URL, so the createdAt of the listed tabs is the same for   *)
(* all tabs of one URL and tells nothing about which of them is older.     *)
(***************************************************************************)
\* The for loop: seen[tab.url] keeps the first tab of each URL.
RECURSIVE duplicatesToClose(_, _)
duplicatesToClose(tabs, seen) ==
  IF tabs = <<>> THEN <<>>
  ELSE LET tab == Head(tabs) IN
       IF tab.url = <<>> THEN duplicatesToClose(Tail(tabs), seen)
       ELSE IF tab.url \in seen THEN <<tab>> \o duplicatesToClose(Tail(tabs), seen)
       ELSE duplicatesToClose(Tail(tabs), seen \cup {tab.url})

DuplicateUrls == {ExampleUrl, <<"a", "b", "o", "u", "t", ":", "b", "l", "a", "n", "k">>, <<>>}

\* Lists of distinct tabs, in any order of position.
TabLists ==
  {tabs \in SeqsUpTo([id : 1..MaxTabs, url : DuplicateUrls], MaxTabs) :
     \A i, j \in DOMAIN tabs : i # j => tabs[i].id # tabs[j].id}

\* The browser created tab n as its n-th tab.
Created(tab) == tab.id

CloseDuplicates ==
  \E tabs \in TabLists : Formatted("closeDuplicates", tabs, duplicatesToClose(tabs, {}))

SpecDuplicates == Init /\ [][CloseDuplicates]_vars

DuplicatesRan == formatted # NotFormatted /\ formatted.fn = "closeDuplicates"

Listed == Range(formatted.arg)

ToClose == Range(formatted.result)

SameUrl(tab) == {t \in Listed : t.url = tab.url}

(***************************************************************************)
(* C32: close --duplicates keeps the oldest: of the listed tabs that share *)
(* a URL exactly one is left out of the close request, and it is the one   *)
(* created first; tabs with an empty URL and tabs with a URL of their own  *)
(* are never closed.                                                       *)
(***************************************************************************)
C32_KeepsOldest ==
  DuplicatesRan =>
    \A tab \in Listed :
      /\ (tab.url = <<>> \/ SameUrl(tab) = {tab}) => tab \notin ToClose
      /\ (tab.url # <<>> /\ SameUrl(tab) # {tab}) =>
           /\ Cardinality(SameUrl(tab) \ ToClose) = 1
           /\ \A kept \in SameUrl(tab) \ ToClose, t \in SameUrl(tab) : Created(kept) <= Created(t)

\* Two tabs of one URL, the younger one listed first: the older was closed.
C32_Witness ==
  /\ DuplicatesRan
  /\ \E kept \in Listed \ ToClose, closed \in ToClose :
       kept.url = closed.url /\ Created(closed) < Created(kept)

\* What the loop does: of the tabs sharing a URL it keeps the one listed
\* first and closes the others, in list order; tabs with an empty URL and
\* tabs with a URL of their own are never closed.
C32_KeepsFirstListed ==
  DuplicatesRan =>
    LET tabs == formatted.arg
        first(i) == \A j \in 1..(i - 1) : tabs[j].url # tabs[i].url
    IN /\ formatted.result
            = SelectSeq(tabs, LAMBDA t : \E i \in DOMAIN tabs :
                                           tabs[i] = t /\ t.url # <<>> /\ ~first(i))
       /\ \A tab \in Listed :
            /\ (tab.url = <<>> \/ SameUrl(tab) = {tab}) => tab \notin ToClose
            /\ (tab.url # <<>> /\ SameUrl(tab) # {tab}) => Cardinality(SameUrl(tab) \ ToClose) = 1

(***************************************************************************)
(* The bridge with clients that go away while their request is with the    *)
(* browser.                                                                *)
(***************************************************************************)
ConnClose(c) ==
  /\ connState[c] = "open"
  /\ \E s \in {ConnOnClose(State, c)} : Becomes(s)
  /\ UNCHANGED lastHello
  /\ UNCHANGED codecVars
  /\ UNCHANGED <<clientVars, formatVars, hostVars, extVars>>

\* Requests and frames come one to a chunk here.
NextClose ==
  \/ \E c \in Conns : ConnAccept(c)
  \/ \E c \in Conns : \E line \in RequestLines : ConnData(c, <<line>>)
  \/ \E body \in FrameBodies : StdinData(<<body>>)
  \/ \E rid \in DOMAIN timers : TimerFire(rid)
  \/ Tick
  \/ \E c \in Conns : ConnClose(c)

SpecClose == Init /\ [][NextClose]_vars

\* The pending requests whose client has gone.
Orphans == {rid \in DOMAIN pending : connState[calls[pending[rid]].conn] = "closed"}

\* s differs from the present state in request rid only, which is settled.
OnlySettled(s, rid, by) ==
  LET k == pending[rid] IN
  /\ s.pending = Without(pending, rid)
  /\ s.timers = Without(timers, rid)
  /\ s.calls[k].by = by
  /\ s.calls[k].promise # "pending"
  /\ s.calls[k].settleCalls = 1
  /\ s.calls[k].writes = 1
  /\ \A j \in DOMAIN calls : j # k => s.calls[j] = calls[j]
  /\ Len(s.calls) = Len(calls)
  /\ s.connOut = connOut
  /\ s.connState = connState
  /\ s.connBuf = connBuf
  /\ s.stdout = stdout
  /\ s.browserConnected = browserConnected

(***************************************************************************)
(* C34: a request has its own timer as its only cancellation trigger.      *)
(* When the connection that submitted a forwarded request closes before    *)
(* the outcome is known, the pending entry and its timer stay as they are  *)
(* (every unsettled command keeps its entry and its armed timer, whatever  *)
(* the state of its connection); the request is then settled by its        *)
(* response or by its timer as any other; and the write of the outcome to  *)
(* the closed connection changes nothing else: no line on any connection,  *)
(* no other call, no other pending entry or timer, and the bridge keeps    *)
(* running and listening.                                                  *)
(***************************************************************************)
C34_CloseCancelsNothing ==
  /\ \A c \in OpenConns :
       LET s == ConnOnClose(State, c)
       IN /\ s.pending = pending /\ s.timers = timers /\ s.calls = calls
          /\ s.stdout = stdout /\ s.connOut = connOut
          /\ \A d \in Conns : d # c => s.connState[d] = connState[d]
  /\ \A k \in ForwardedCalls :
       calls[k].promise = "pending" =>
         /\ calls[k].rid \in DOMAIN pending /\ pending[calls[k].rid] = k
         /\ calls[k].rid \in DOMAIN timers /\ timers[calls[k].rid].call = k
  /\ \A k \in ForwardedCalls : calls[k].settleCalls = 1 => calls[k].by \in {"response", "timer"}
  /\ stdinBuf = <<>> =>
       \A rid \in Orphans : \A m \in Responses(rid) :
         OnlySettled(StdinOnData(State, Frames(<<Stringify(m)>>)), rid, "response")
  /\ \A rid \in Orphans : OnlySettled(OnTimeout(State, rid), rid, "timer")
  /\ proc[1].phase = "running" /\ proc[1].listening

\* Two requests whose clients went away before the outcome: one was
\* settled by its response and one by its timer, nothing was written, and
\* a request of a client that stayed got its line.
C34_Witness ==
  /\ \E k1, k2 \in ForwardedCalls :
       /\ calls[k1].by = "response" /\ calls[k2].by = "timer"
       /\ calls[k1].writes = 1 /\ calls[k2].writes = 1
       /\ connState[calls[k1].conn] = "closed" /\ connState[calls[k2].conn] = "closed"
       /\ connOut[calls[k1].conn] = <<>> /\ connOut[calls[k2].conn] = <<>>
  /\ pending = EmptyObj /\ timers = EmptyObj

\* One client went away, the other stayed: the one that stayed was answered.
C34_OtherConnectionServed ==
  \E k1, k2 \in ForwardedCalls :
    /\ connState[calls[k1].conn] = "closed" /\ calls[k1].writes = 1
    /\ connOut[calls[k1].conn] = <<>>
    /\ connState[calls[k2].conn] = "open" /\ calls[k2].by = "response"
    /\ connOut[calls[k2].conn] = Line([data |-> "tabs"])

(***************************************************************************)
(* The extension's tab events and the steps of their handlers.             *)
(***************************************************************************)
ExtBecomes(x) ==
  /\ ext' = x
  /\ UNCHANGED <<bridgeVars, lastHello, codecVars, clientVars, formatVars, hostVars>>

TabCreated(t, url) ==
  /\ Len(ext.handlers) < MaxEvents
  /\ ext.tabUrls[t] = NoTab
  /\ ExtBecomes(onCreated(ext, t, url))

TabActivated(t) ==
  /\ Len(ext.handlers) < MaxEvents
  /\ ext.tabUrls[t] # NoTab
  /\ ExtBecomes(onActivated(ext, t))

TabUpdated(t, url) ==
  /\ Len(ext.handlers) < MaxEvents
  /\ ext.tabUrls[t] # NoTab
  /\ ext.tabUrls[t] # url
  /\ ExtBecomes(onUpdated(ext, t, url))

StorageRead(i) ==
  /\ ext.handlers[i].pc \in {"load", "load2"}
  /\ ExtBecomes(loadTracking(ext, i))

StorageWritten(i) ==
  /\ ext.handlers[i].pc = "save"
  /\ ExtBecomes(saveTracking(ext, i))

NextTracking ==
  \/ \E t \in Tabs, url \in TrackedUrls : TabCreated(t, url)
  \/ \E t \in Tabs : TabActivated(t)
  \/ \E t \in Tabs, url \in TrackedUrls : TabUpdated(t, url)
  \/ \E i \in DOMAIN ext.handlers : StorageRead(i)
  \/ \E i \in DOMAIN ext.handlers : StorageWritten(i)

SpecTracking == Init /\ [][NextTracking]_vars

AllFinished == ext.handlers # <<>> /\ ~Unfinished(ext)

Kinds == {ext.handlers[i].kind : i \in DOMAIN ext.handlers}

(***************************************************************************)
(* C39: tab tracking loses no update under interleaving: once all handlers *)
(* have finished, the stored activationCount of every URL is the number of *)
(* activation events handled for tabs at that URL, and its navigationCount *)
(* the number of navigations to it.                                        *)
(***************************************************************************)
C39_NoLostUpdate ==
  AllFinished =>
    \A u \in TrackedUrls :
      /\ ext.storage[u].activationCount = ext.activations[u]
      /\ ext.storage[u].navigationCount = ext.navigations[u]

\* Nothing but activations of the one tab, two of them handled at the same
\* time: both are finished and the stored count is 1.
C39_Witness ==
  /\ AllFinished
  /\ Kinds = {"activated"}
  /\ ext.overlapped
  /\ ext.activations[TabA] = 2
  /\ ext.storage[TabA].activationCount = 1

\* A navigation whose handler ran while an activation was being handled:
\* the activation's write put back the record the navigation had moved.
C39_StaleWrite ==
  /\ AllFinished
  /\ Len(ext.handlers) = 2
  /\ Kinds = {"activated", "updated"}
  /\ ext.navigations[TabB] = 1
  /\ ext.storage[TabB].navigationCount = 0

\* Activations handled one after the other are all counted.
C39_SequentialActivationsCounted ==
  (AllFinished /\ Kinds = {"activated"} /\ ~ext.overlapped) =>
    \A u \in TrackedUrls : ext.storage[u].activationCount = ext.activations[u]

====
